---- MODULE Spec2Model ----
(***************************************************************************)
(* ClawCash: seed module, KeyManager, chain registry, chain adapters and   *)
(* wallet orchestrator, modelled as state machines.                        *)
(*                                                                         *)
(* The specifications share the variables:                                 *)
(*   SpecSeed        the seed-module functions called directly             *)
(*   SpecKeyManager  one KeyManager instance used directly                 *)
(*   SpecTwoManagers two independent KeyManager instances                  *)
(*   SpecRegistry    the chain registry (registerChain / getChain)         *)
(*   SpecAdapter     one chain adapter used directly                       *)
(*   Spec            a ClawCashWallet over the loaded registry             *)
(*   SpecConcurrent  two overlapping operations of one wallet              *)
(*   SpecConfigured  a wallet constructed with rpcUrls                     *)
(*   SpecTokens      wallet operations called with a token                 *)
(*   SpecBalance     a BalanceManager's getBalance and its cache           *)
(*   SpecAllBalances a BalanceManager's getAllBalances                     *)
(*   SpecTrading     a TradingManager and its exchanges                    *)
(***************************************************************************)
EXTENDS Integers, Sequences, FiniteSets, TLC

VARIABLES
    managers,      \* KeyManager instances: mnemonic and derivedKeys map
    ret,           \* outcome of the most recent KeyManager call
    derivations,   \* per instance and chain: HD derivations since construction / clear()
    ChainRegistry, \* own properties of the registry object: chain id -> factory
    moduleLoaded,  \* core/wallet.ts has been evaluated (its registerChain calls ran)
    latest,        \* chain id -> factory of the most recent registerChain call for it
    nRegister,     \* registerChain calls made by callers
    got,           \* the most recent registry call and its outcome
    wallets,       \* ClawCashWallet instances; wallet i owns KeyManager i
    tasks,         \* wallet operations suspended at an await
    wret,          \* outcome of the most recent wallet call that completed
    instance,      \* a chain adapter used directly, with its connection history
    aret,          \* outcome of the most recent call on that adapter
    sret,          \* the most recent call of a seed-module function and its result
    bm,            \* a BalanceManager: its cache and cacheTtl
    now,           \* Date.now(), in milliseconds since the start
    btask,         \* the BalanceManager call suspended at an await
    bret,          \* outcome of the most recent BalanceManager call that completed
    exchanges,     \* TradingManager.exchanges: lower-case name -> exchange instance
    ttask,         \* the TradingManager connect() suspended at its await
    tret,          \* outcome of the most recent TradingManager call
    connectLog     \* per name: how the last connect() since add / disconnect ended

kmVars == <<managers, ret, derivations>>

regVars == <<ChainRegistry, moduleLoaded, latest, nRegister, got>>

walletVars == <<wallets, tasks, wret>>

adapterVars == <<instance, aret>>

seedVars == <<sret>>

balanceVars == <<bm, now, btask, bret>>

tradingVars == <<exchanges, ttask, tret, connectLog>>

vars == <<managers, ret, derivations, ChainRegistry, moduleLoaded, latest, nRegister,
          got, wallets, tasks, wret, instance, aret, sret, bm, now, btask, bret,
          exchanges, ttask, tret, connectLog>>

(***************************************************************************)
(* Bounds                                                                  *)
(***************************************************************************)
\* registerChain calls by callers, beyond the five of module initialisation
MaxRegister == 2

\* steps of the clock: enough for an entry to be fresh, to expire and to be
\* replaced
MaxTicks == 3

\* Two KeyManager instances: enough for every statement about one instance
\* and about a pair of independent instances.
ManagerIds == {1, 2}

(***************************************************************************)
(* Chain identifiers (core/types.ts Chain) and the ids a JavaScript caller  *)
(* can pass although the type excludes them.                               *)
(***************************************************************************)
EvmChains == {"ethereum", "polygon", "bsc", "arbitrum"}

Chains == EvmChains \cup {"bitcoin"}

\* Mutant: the export loop misses the last key.
ChainOrderEvmOnly == <<"ethereum", "polygon", "bsc", "arbitrum">>

\* Object.keys(DERIVATION_PATHS): insertion order of the literal
ChainOrder == <<"ethereum", "polygon", "bsc", "arbitrum", "bitcoin">>

\* "solana": no own and no inherited property of a plain object;
\* "constructor": inherited from Object.prototype by every plain object.
ForeignIds == {"solana", "constructor"}

ChainIds == Chains \cup ForeignIds

(***************************************************************************)
(* Seed module (core/mnemonic.ts over ethers' Mnemonic), scaled down:      *)
(* a word list of 4 words (2 bits a word), phrases of 2 words = 3 bits of  *)
(* entropy followed by 1 checksum bit.  A phrase string is the sequence of *)
(* its tokens, joined by single spaces: 0..3 a word of the list in lower   *)
(* case, 10..13 the same word in upper case, 4 a token that is not in the  *)
(* list, Gap one more whitespace character at that place.                  *)
(***************************************************************************)
Entropies == 0..7

Gap == 20

\* the empty string as a token
EmptyToken == 5

PhraseTokens == (0..4) \cup (10..13) \cup {Gap}

\* stand-in for the leading bit(s) of SHA-256(entropy)
Checksum(e) == ((e * 5 + 3) \div 2) % 2

\* Mutant: the phrase is built from the entropy bits without the checksum bit.
entropyToMnemonicNoChecksum(e) ==
    LET v == e * 2 IN <<v \div 4, v % 4>>

\* Mnemonic.fromEntropy(entropy).phrase
entropyToMnemonic(e) ==
    LET v == e * 2 + Checksum(e) IN <<v \div 4, v % 4>>

\* String.prototype.toLowerCase on one token
Lower(tok) == IF tok \in 10..13 THEN tok - 10 ELSE tok

NotGap(tok) == tok # Gap

\* wordlist.split(phrase): phrase.toLowerCase().split(/\s+/g).  A run of
\* whitespace between two words separates them like a single space; whitespace
\* at either end leaves an empty string as first or last element.
Split(p) ==
    LET words == SelectSeq(p, NotGap)
        lowered == [k \in 1..Len(words) |-> Lower(words[k])]
    IN (IF Len(p) > 0 /\ p[1] = Gap THEN <<EmptyToken>> ELSE <<>>)
       \o lowered
       \o (IF Len(p) > 0 /\ p[Len(p)] = Gap THEN <<EmptyToken>> ELSE <<>>)

\* Mnemonic.fromPhrase(phrase) succeeds: word count, word-list membership, checksum
validateMnemonic(p) ==
    LET w == Split(p) IN
    /\ Len(w) = 2
    /\ \A k \in 1..Len(w) : w[k] \in 0..3
    /\ LET v == w[1] * 4 + w[2] IN v % 2 = Checksum(v \div 2)

\* Mnemonic.fromPhrase(phrase).entropy, defined where validateMnemonic holds
mnemonicToEntropy(p) == LET w == Split(p) IN (w[1] * 4 + w[2]) \div 2

\* the phrases callers supply in the model: two valid seeds, the empty string,
\* a phrase with a wrong checksum, a phrase with a word outside the list
SeedA == entropyToMnemonic(0)

SeedB == entropyToMnemonic(5)

EmptyPhrase == <<>>

BadChecksumPhrase == <<SeedA[1], (SeedA[2] + 1) % 4>>

BadWordPhrase == <<SeedA[1], 4>>

ValidPhrases == {SeedA, SeedB}

InvalidPhrases == {EmptyPhrase, BadChecksumPhrase, BadWordPhrase}

PhraseInputs == ValidPhrases \cup InvalidPhrases

(***************************************************************************)
(* Key derivation (core/key-manager.ts)                                    *)
(***************************************************************************)
\* DERIVATION_PATHS[chain], as the components of the path string.  A missing
\* property reads undefined, which 'm/' + path renders as "undefined"; the
\* inherited "constructor" renders as the source text of Object.
\* Mutant: polygon is given a coin type of its own (the one bitcoin has).
DERIVATION_PATHS_PerChain(chain) ==
    CASE chain \in EvmChains \ {"polygon"} -> <<"44'", "60'", "0'", "0", "0">>
      [] chain \in {"polygon", "bitcoin"} -> <<"44'", "0'", "0'", "0", "0">>
      [] chain = "constructor" -> <<"function Object() { [native code] }">>
      [] OTHER -> <<"undefined">>

DERIVATION_PATHS(chain) ==
    CASE chain \in EvmChains -> <<"44'", "60'", "0'", "0", "0">>
      [] chain = "bitcoin" -> <<"44'", "0'", "0'", "0", "0">>
      [] chain = "constructor" -> <<"function Object() { [native code] }">>
      [] OTHER -> <<"undefined">>

\* ethers derivePath: every component must match /^[0-9]+'?$/
ValidPathComponent(c) == c \in {"44'", "60'", "0'", "0"}

NoKey == [ent |-> -1, path |-> <<>>]

\* HDNodeWallet.fromPhrase(mnemonic, '', 'm/' + path): throws on an invalid
\* phrase or path; otherwise the key is a function of (seed entropy, path).
FromPhraseThrows(mnemonic, path) ==
    \/ ~validateMnemonic(mnemonic)
    \/ \E k \in 1..Len(path) : ~ValidPathComponent(path[k])

FromPhraseKey(mnemonic, path) ==
    [ent |-> mnemonicToEntropy(mnemonic), path |-> path]

NoManager == [alive |-> FALSE, mnemonic |-> <<>>, derivedKeys |-> <<>>]

\* The record of the most recent call: what it returned or that it threw, and
\* for the bookkeeping of the properties: fresh (an HD derivation ran), before
\* (derivedKeys as clear() found it), afterClear / prior (a derivePrivateKey
\* that directly follows clear() on the same instance, and the key the map held
\* for the chain when it was cleared).
NoRet == [op |-> "none", mgr |-> 0, chain |-> "", threw |-> FALSE,
          value |-> NoKey, fresh |-> FALSE, exported |-> <<>>, before |-> <<>>,
          afterClear |-> FALSE, prior |-> NoKey]

Bump(f, c) == IF c \in DOMAIN f THEN [f EXCEPT ![c] = @ + 1] ELSE (c :> 1) @@ f

\* Map.set / property assignment: overwrite or insert
Put(f, c, v) == IF c \in DOMAIN f THEN [f EXCEPT ![c] = v] ELSE (c :> v) @@ f

(***************************************************************************)
(* Chain registry (chains/base.ts) and the factories of this repository    *)
(***************************************************************************)
\* rpcUrl arguments: "" stands for an omitted (undefined) argument
NoRpc == ""

CustomRpc == "https://custom.example"

RpcInputs == {NoRpc, CustomRpc}

\* DEFAULT_RPCS[chain]
DEFAULT_RPCS(chain) ==
    CASE chain = "ethereum" -> "https://eth.llamarpc.com"
      [] chain = "polygon" -> "https://polygon-rpc.com"
      [] chain = "bsc" -> "https://bsc-dataseed.binance.org"
      [] chain = "arbitrum" -> "https://arbitrum-one.publicnode.com"

\* ethereumFactory(chain) and the bitcoin factory registered by core/wallet.ts
ethereumFactory(chain) == [kind |-> "ethereumFactory", chain |-> chain]

bitcoinFactory == [kind |-> "bitcoinFactory", chain |-> "bitcoin"]

\* what a lookup yields for a name the registry does not own
Undefined == [kind |-> "undefined", chain |-> ""]

\* Object.prototype.constructor, which every plain object inherits
ObjectConstructor == [kind |-> "Object", chain |-> ""]

\* the factories callers register in the model
FactoryInputs == {ethereumFactory("ethereum"), ethereumFactory("polygon"), bitcoinFactory}

NoAdapter == [kind |-> "none", chain |-> "", privateKey |-> NoKey, rpcUrl |-> ""]

\* new EthereumChain(chain, privateKey, rpcUrl)
EthereumChain(chain, privateKey, rpcUrl) ==
    [kind |-> "EthereumChain", chain |-> chain, privateKey |-> privateKey,
     rpcUrl |-> IF rpcUrl = NoRpc THEN DEFAULT_RPCS(chain) ELSE rpcUrl]

\* new BitcoinChain(privateKey, rpcUrl)
BitcoinChain(privateKey, rpcUrl) ==
    [kind |-> "BitcoinChain", chain |-> "bitcoin", privateKey |-> privateKey,
     rpcUrl |-> IF rpcUrl = NoRpc THEN "https://blockstream.info/api" ELSE rpcUrl]

\* factory(privateKey, rpcUrl).  The bitcoin factory takes the key only.
\* Object(privateKey, rpcUrl) returns a String object wrapping the key: not an
\* adapter.
ApplyFactory(factory, privateKey, rpcUrl) ==
    CASE factory.kind = "ethereumFactory" -> EthereumChain(factory.chain, privateKey, rpcUrl)
      [] factory.kind = "bitcoinFactory" -> BitcoinChain(privateKey, NoRpc)
      [] OTHER -> [NoAdapter EXCEPT !.kind = "String", !.privateKey = privateKey]

\* ChainRegistry[chain]: an own property, else what the object inherits
Lookup(registry, chain) ==
    IF chain \in DOMAIN registry THEN registry[chain]
    ELSE IF chain = "constructor" THEN ObjectConstructor
    ELSE Undefined

NoGot == [op |-> "none", chain |-> "", privateKey |-> NoKey, rpcUrl |-> "",
          threw |-> FALSE, error |-> "", invoked |-> Undefined,
          adapter |-> NoAdapter, registryBefore |-> <<>>]

\* The effect of getChain(chain, privateKey, rpcUrl)
GetChainResult(registry, chain, privateKey, rpcUrl) ==
    LET factory == Lookup(registry, chain) IN
    IF factory = Undefined
    THEN [threw |-> TRUE, error |-> "Chain not implemented", invoked |-> Undefined,
          adapter |-> NoAdapter]
    ELSE [threw |-> FALSE, error |-> "", invoked |-> factory,
          adapter |-> ApplyFactory(factory, privateKey, rpcUrl)]

(***************************************************************************)
(* Wallet orchestrator (core/wallet.ts) and the adapters' operations        *)
(***************************************************************************)
\* slots for wallet operations in flight: Spec runs them one at a time in
\* slot 1, SpecConcurrent overlaps two
TaskIds == {1, 2}

\* a mnemonic argument: omitted (undefined) or a string
NoArg == [given |-> FALSE, phrase |-> <<>>]

MnemonicArgs == {NoArg} \cup {[given |-> TRUE, phrase |-> p] : p \in PhraseInputs}

\* the entropies crypto.getRandomValues yields in the model
GeneratedEntropies == {0, 5}

\* config.mnemonic || ...: undefined and '' are falsy
Falsy(arg) == ~arg.given \/ arg.phrase = EmptyPhrase

\* validateMnemonic applied to an argument: Mnemonic.fromPhrase(undefined) throws
ValidArg(arg) == arg.given /\ validateMnemonic(arg.phrase)

\* a wallet: config.mnemonic as supplied and config.rpcUrls (chain -> URL)
NoWallet == [alive |-> FALSE, supplied |-> NoArg, rpcUrls |-> <<>>]

\* addresses, as the expression that builds them from the private key
NoAddress == [prefix |-> "", how |-> "none", key |-> NoKey, from |-> 0, to |-> 0]

\* adapter.getAddress(): EthereumChain reads ethers' wallet.address, BitcoinChain
\* the string built by deriveAddress in its constructor
getAddress(adapter) ==
    IF adapter.kind = "EthereumChain"
    THEN [prefix |-> "0x", how |-> "public key hash", key |-> adapter.privateKey,
          from |-> 0, to |-> 0]
    ELSE [prefix |-> "bc1q", how |-> "slice", key |-> adapter.privateKey,
          from |-> 2, to |-> 40]

\* ClawCashWallet.getBitcoinAddress: 'bc1q' + pk.slice(0, 38)
getBitcoinAddress(pk) ==
    [prefix |-> "bc1q", how |-> "slice", key |-> pk, from |-> 0, to |-> 38]

\* Text, as a sequence of characters that keep their origin: a literal
\* character, hex digit number at of a private key, or digit number at of a
\* hash computed from a key
Lit(c) == [src |-> "lit", ch |-> c, at |-> 0, of |-> NoKey]

KeyDigit(key, k) == [src |-> "key", ch |-> "", at |-> k, of |-> key]

HashDigit(key, k) == [src |-> "hash", ch |-> "", at |-> k, of |-> key]

\* the private key string ethers returns: "0x" and 64 hex digits
KeyText(key) == <<Lit("0"), Lit("x")>> \o [k \in 1..64 |-> KeyDigit(key, k)]

\* String.prototype.slice(from, to) for indices that are not negative
Slice(text, from, to) ==
    SubSeq(text, from + 1, IF to < Len(text) THEN to ELSE Len(text))

\* the string an address expression evaluates to
AddressText(a) ==
    CASE a.how = "slice" ->
           <<Lit("b"), Lit("c"), Lit("1"), Lit("q")>> \o Slice(KeyText(a.key), a.from, a.to)
      [] a.how = "public key hash" ->
           <<Lit("0"), Lit("x")>> \o [k \in 1..40 |-> HashDigit(a.key, k)]
      [] OTHER -> <<>>

NoTask == [op |-> "none", wallet |-> 0, chain |-> "", phase |-> "", adapter |-> NoAdapter,
           k |-> 0, addresses |-> <<>>, failed |-> {},
           connects |-> 0, operations |-> 0, connectFailed |-> FALSE,
           token |-> ""]

\* The record of the most recent wallet call that completed (returned, threw,
\* resolved or rejected)
NoWret == [op |-> "none", wallet |-> 0, chain |-> "", threw |-> FALSE, error |-> "",
           value |-> "", addresses |-> <<>>, failed |-> {}, supplied |-> NoArg,
           built |-> FALSE, seed |-> <<>>, keysBefore |-> <<>>, keysAfter |-> <<>>,
           consulted |-> FALSE, adapter |-> NoAdapter,
           connects |-> 0, operations |-> 0, connectFailed |-> FALSE,
           backendFailed |-> FALSE, raised |-> "",
           token |-> "", symbol |-> "", native |-> FALSE, currency |-> ""]

\* the error HDNodeWallet.fromPhrase throws: the phrase is checked before the path
DeriveError(mnemonic) ==
    IF validateMnemonic(mnemonic) THEN "invalid path component" ELSE "invalid mnemonic"

\* the chains getAddresses builds adapters for, in order
AddressChains == <<"ethereum", "polygon", "bsc", "arbitrum">>

\* adapter.connect() with the backend reachable or not: EthereumChain awaits
\* provider.getNetwork() and rethrows; BitcoinChain.connect is empty
ConnectThrows(adapter, reachable) == adapter.kind = "EthereumChain" /\ ~reachable

\* Mutant: getAddresses lets a failed connect() propagate.
ConnectFailureCaughtNever(op) == FALSE

\* Mutant: every wallet operation wraps connect() in the try/catch of
\* getAddresses and goes on after a failure.
ConnectFailureCaughtAlways(op) == TRUE

\* whether the wallet operation wraps connect() in try/catch
ConnectFailureCaught(op) == op = "getAddresses"

\* Mutant: every adapter operation goes to the backend, signing included.
NeedsBackendAlways(adapter, op) == TRUE

\* whether the adapter operation queries the backend: BitcoinChain's
\* sendTransaction throws at once, signMessage is computed locally
NeedsBackend(adapter, op) ==
    IF adapter.kind = "EthereumChain"
    THEN op \in {"getBalance", "estimateFee", "sendPayment"}
    ELSE op \in {"getBalance", "estimateFee"}

\* Mutant: a wallet operation whose connect() failed tries connect() once more.
OnConnectFailureRetry(task) ==
    IF task.connects < 2 THEN [task EXCEPT !.connects = @ + 1] ELSE task

\* A wallet operation whose awaited connect() rejected: the rejection leaves
\* the async function, nothing of the operation remains
OnConnectFailure(task) == [task EXCEPT !.phase = "rejected"]

\* The adapter operation a wallet operation ends with, given whether the
\* backend call it makes succeeds
AdapterOutcome(adapter, op, backendOk) ==
    IF adapter.kind = "EthereumChain"
    THEN CASE op = "signMessage" -> [threw |-> FALSE, error |-> "", value |-> "signature"]
           [] ~backendOk -> [threw |-> TRUE, error |-> "backend call failed", value |-> ""]
           [] op = "getBalance" -> [threw |-> FALSE, error |-> "", value |-> "balance"]
           [] op = "estimateFee" -> [threw |-> FALSE, error |-> "", value |-> "fee"]
           [] op = "sendPayment" -> [threw |-> FALSE, error |-> "", value |-> "tx hash"]
    ELSE CASE op = "signMessage" -> [threw |-> FALSE, error |-> "", value |-> "signature"]
           [] op = "sendPayment" ->
                [threw |-> TRUE, error |-> "Bitcoin transactions require bitcoinjs-lib",
                 value |-> ""]
           [] op = "getBalance" ->
                [threw |-> FALSE, error |-> "",
                 value |-> IF backendOk THEN "balance" ELSE "zero balance"]
           [] op = "estimateFee" ->
                [threw |-> FALSE, error |-> "",
                 value |-> IF backendOk THEN "fee" ELSE "default fee"]

\* An omitted token argument
NoToken == ""

\* The symbol an adapter gives the native balance of its chain
NativeSymbol(adapter) ==
    IF adapter.kind = "BitcoinChain" THEN "BTC"
    ELSE CASE adapter.chain = "polygon" -> "MATIC"
           [] adapter.chain = "bsc" -> "BNB"
           [] OTHER -> "ETH"

\* The test EthereumChain.estimateFee and sendTransaction apply to params.token
\* to take the native branch
TreatedAsNative(token) == token = "ETH" \/ token = "MATIC" \/ token = "BNB"

\* The adapter operation called with a token: getBalance(tokenAddress) with the
\* token's contract address (named here by the symbol the contract reports),
\* estimateFee(params) and sendTransaction(params) with params.token.
\* AdapterOutcome is the native branch of the EVM operations; BitcoinChain
\* ignores the argument.  native: the request took the native branch;
\* currency: the currency the value sent is denominated in.
TokenOutcome(adapter, op, token, backendOk) ==
    LET r == AdapterOutcome(adapter, op, backendOk)
        evm == adapter.kind = "EthereumChain"
    IN
    CASE evm /\ op = "getBalance" /\ token # NoToken ->
           IF backendOk
           THEN [threw |-> FALSE, error |-> "", value |-> "token balance",
                 symbol |-> token, native |-> FALSE, currency |-> ""]
           ELSE [threw |-> TRUE, error |-> "backend call failed", value |-> "",
                 symbol |-> "", native |-> FALSE, currency |-> ""]
      [] evm /\ op = "estimateFee" /\ ~TreatedAsNative(token) ->
           IF backendOk
           THEN [threw |-> FALSE, error |-> "", value |-> "token fee",
                 symbol |-> "", native |-> FALSE, currency |-> ""]
           ELSE [threw |-> TRUE, error |-> "backend call failed", value |-> "",
                 symbol |-> "", native |-> FALSE, currency |-> ""]
      [] evm /\ op = "sendPayment" /\ ~TreatedAsNative(token) ->
           [threw |-> TRUE,
            error |-> "ERC-20 transfers require token address configuration",
            value |-> "", symbol |-> "", native |-> FALSE, currency |-> ""]
      [] OTHER ->
           [threw |-> r.threw, error |-> r.error, value |-> r.value,
            symbol |-> IF op = "getBalance" /\ ~r.threw
                       THEN NativeSymbol(adapter) ELSE "",
            native |-> evm /\ op \in {"estimateFee", "sendPayment"},
            currency |-> IF evm /\ op = "sendPayment" /\ ~r.threw
                         THEN NativeSymbol(adapter) ELSE ""]

\* Whether the operation called with the token calls the backend: the ERC-20
\* branch of sendTransaction throws before any call
QueriesBackend(adapter, op, token) ==
    /\ NeedsBackend(adapter, op)
    /\ ~(adapter.kind = "EthereumChain" /\ op = "sendPayment" /\ ~TreatedAsNative(token))

\* What the wallet hands the adapter operation: getBalance(chain, _token)
\* calls chainInstance.getBalance() without argument, the payment operations
\* pass params on
AdapterArgument(op, token) == IF op = "getBalance" THEN NoToken ELSE token

\* The token of a call that names none: the getBalance(chain) and
\* signMessage calls, and payment parameters naming the chain's own currency
DefaultToken(op, chain) ==
    IF op \in {"estimateFee", "sendPayment"}
    THEN NativeSymbol([kind |-> IF chain = "bitcoin" THEN "BitcoinChain"
                                ELSE "EthereumChain",
                       chain |-> chain])
    ELSE NoToken

\* The record of the most recent seed-module call
NoSret == [op |-> "none", phrase |-> <<>>, entropy |-> -1, threw |-> FALSE,
           valid |-> FALSE, result |-> <<>>]

\* An adapter object: its fields and the address fixed at construction.  The
\* classes keep no connection flag; state is the connection state that the
\* calls made so far determine (connect() returned: Connected; disconnect():
\* Disconnected), and first the address the first getAddress() returned.
NoInstance == [alive |-> FALSE, adapter |-> NoAdapter, address |-> NoAddress,
               state |-> "Disconnected", first |-> NoAddress]

NoAret == [op |-> "none", threw |-> FALSE, error |-> "", value |-> "",
           address |-> NoAddress, reachable |-> TRUE, queried |-> FALSE,
           repeat |-> FALSE, before |-> NoInstance]

(***************************************************************************)
(* BalanceManager                                                          *)
(***************************************************************************)

\* private cacheTtl = 60000
DefaultCacheTtl == 60000

\* `${chain}-${token || 'native'}`: the chain ids hold no hyphen, so the key
\* is the pair
CacheKey(chain, token) == <<chain, IF token = NoToken THEN "native" ELSE token>>

\* Mutant: an entry is served however old it is.
FreshWhateverAge(cache, key, ttl, t) == key \in DOMAIN cache

\* cached && Date.now() - cached.timestamp < this.cacheTtl
Fresh(cache, key, ttl, t) == key \in DOMAIN cache /\ t - cache[key].timestamp < ttl

\* A BalanceManager over a wallet built from the seed of entropy seed.  A cache
\* entry holds the Balance and the time it was stored; the Balance is named by
\* its symbol and the time the wallet returned it.
NoBalanceManager == [alive |-> FALSE, seed |-> -1, cache |-> <<>>,
                     cacheTtl |-> DefaultCacheTtl]

\* wallet.getBalance(chain, token) on the manager's wallet, whose phrase is
\* valid: derivation and getChain succeed, connect() may fail, then the
\* adapter's getBalance() settles
WalletGetBalance(chain, token, reachable, backendOk) ==
    LET adapter == IF chain = "bitcoin" THEN BitcoinChain(NoKey, NoRpc)
                   ELSE EthereumChain(chain, NoKey, NoRpc)
        r == TokenOutcome(adapter, "getBalance",
                          AdapterArgument("getBalance", token), backendOk)
    IN
    IF ConnectThrows(adapter, reachable)
    THEN [threw |-> TRUE, error |-> "Failed to connect", symbol |-> ""]
    ELSE [threw |-> r.threw, error |-> r.error, symbol |-> r.symbol]

\* addresses[chain] of the wallet's getAddresses(), which resolves for a
\* constructed wallet whether or not its connects fail
WalletAddress(seed, chain) ==
    LET key == FromPhraseKey(entropyToMnemonic(seed), DERIVATION_PATHS(chain)) IN
    IF chain = "bitcoin" THEN getBitcoinAddress(key)
    ELSE getAddress(EthereumChain(chain, key, NoRpc))

\* const chains in getAllBalances
AllBalanceChains == <<"ethereum", "polygon", "bsc", "arbitrum", "bitcoin">>

\* cache.get(key), undefined when the key has no entry
NoEntry == [balance |-> [symbol |-> "", at |-> -1], timestamp |-> -1]

\* The BalanceManager call suspended at an await.  checked, checkAt,
\* checkTtl: what cache.get(key) gave, the time and cacheTtl when getBalance
\* looked its key up; k, results, failed, fetches: the loop of getAllBalances
NoBtask == [op |-> "none", chain |-> "", token |-> "", useCache |-> TRUE,
            phase |-> "", checked |-> NoEntry, checkAt |-> 0, checkTtl |-> 0,
            k |-> 0, results |-> <<>>, failed |-> {}, fetches |-> 0]

\* The record of the most recent BalanceManager call that completed.  fetches:
\* the calls of wallet.getBalance it made
NoBret == [op |-> "none", chain |-> "", token |-> "", useCache |-> TRUE,
           threw |-> FALSE, error |-> "", balance |-> NoEntry.balance,
           checked |-> NoEntry, checkAt |-> 0, checkTtl |-> 0,
           fetches |-> 0, results |-> <<>>, failed |-> {}, seed |-> -1]

(***************************************************************************)
(* TradingManager and the exchange adapters                                *)
(***************************************************************************)

\* the exchange names the calls are made with
ExchangeNames == {"binance", "Binance", "kraken", "constructor"}

\* name.toLowerCase()
toLowerCase(name) == IF name = "Binance" THEN "binance" ELSE name

\* ExchangeRegistry[key]: the own property binance, else what the object
\* inherits from Object.prototype
ExchangeRegistry(key) ==
    CASE key = "binance" -> "BinanceExchange"
      [] key = "constructor" -> "Object"
      [] OTHER -> "undefined"

\* The connect() suspended at its fetch.  detached: addExchange has replaced
\* the instance being connected in the map since
NoTtask == [name |-> "", key |-> "", phase |-> "", detached |-> FALSE]

\* The record of the most recent TradingManager call
NoTret == [op |-> "none", name |-> "", threw |-> FALSE, error |-> "",
           value |-> FALSE]

Init ==
    /\ managers = [i \in ManagerIds |-> NoManager]
    /\ ret = NoRet
    /\ derivations = [i \in ManagerIds |-> <<>>]
    /\ ChainRegistry = <<>>
    /\ moduleLoaded = FALSE
    /\ latest = <<>>
    /\ nRegister = 0
    /\ got = NoGot
    /\ wallets = [i \in ManagerIds |-> NoWallet]
    /\ tasks = [t \in TaskIds |-> NoTask]
    /\ wret = NoWret
    /\ instance = NoInstance
    /\ aret = NoAret
    /\ sret = NoSret
    /\ bm = NoBalanceManager
    /\ now = 0
    /\ btask = NoBtask
    /\ bret = NoBret
    /\ exchanges = <<>>
    /\ ttask = NoTtask
    /\ tret = NoTret
    /\ connectLog = <<>>

\* new KeyManager(mnemonic): stores the phrase, nothing else
NewKeyManager(i, mnemonic) ==
    /\ managers' = [managers EXCEPT ![i] =
                       [alive |-> TRUE, mnemonic |-> mnemonic, derivedKeys |-> <<>>]]
    /\ derivations' = [derivations EXCEPT ![i] = <<>>]
    /\ ret' = [NoRet EXCEPT !.op = "new", !.mgr = i]
    /\ UNCHANGED <<regVars, walletVars, adapterVars, seedVars, balanceVars, tradingVars>>

\* Mutant: the cache test asks whether anything is cached, not whether this
\* chain is, and answers with an entry of another chain.
DeriveResultAnyEntry(m, chain) ==
    IF DOMAIN m.derivedKeys # {}
    THEN [m |-> m, threw |-> FALSE, fresh |-> FALSE,
          value |-> m.derivedKeys[CHOOSE c \in DOMAIN m.derivedKeys :
                                    c = chain \/ chain \notin DOMAIN m.derivedKeys]]
    ELSE LET path == DERIVATION_PATHS(chain) IN
         IF FromPhraseThrows(m.mnemonic, path)
         THEN [m |-> m, threw |-> TRUE, value |-> NoKey, fresh |-> FALSE]
         ELSE LET privateKey == FromPhraseKey(m.mnemonic, path) IN
              [m |-> [m EXCEPT !.derivedKeys = Put(@, chain, privateKey)],
               threw |-> FALSE, value |-> privateKey, fresh |-> TRUE]

\* Mutant: the derived key is returned but never stored.
DeriveResultNoStore(m, chain) ==
    IF chain \in DOMAIN m.derivedKeys
    THEN [m |-> m, threw |-> FALSE, value |-> m.derivedKeys[chain], fresh |-> FALSE]
    ELSE LET path == DERIVATION_PATHS(chain) IN
         IF FromPhraseThrows(m.mnemonic, path)
         THEN [m |-> m, threw |-> TRUE, value |-> NoKey, fresh |-> FALSE]
         ELSE [m |-> m, threw |-> FALSE, value |-> FromPhraseKey(m.mnemonic, path),
               fresh |-> TRUE]

\* Mutant: a miss on an EVM chain derives and stores the key of the whole
\* family at once.
DeriveResultFamily(m, chain) ==
    IF chain \in DOMAIN m.derivedKeys
    THEN [m |-> m, threw |-> FALSE, value |-> m.derivedKeys[chain], fresh |-> FALSE]
    ELSE LET path == DERIVATION_PATHS(chain) IN
         IF FromPhraseThrows(m.mnemonic, path)
         THEN [m |-> m, threw |-> TRUE, value |-> NoKey, fresh |-> FALSE]
         ELSE LET privateKey == FromPhraseKey(m.mnemonic, path)
                  family == IF chain \in EvmChains THEN EvmChains ELSE {chain}
              IN
              [m |-> [m EXCEPT !.derivedKeys =
                         [c \in DOMAIN @ \cup family |->
                             IF c \in family THEN privateKey ELSE @[c]]],
               threw |-> FALSE, value |-> privateKey, fresh |-> TRUE]

\* The effect of one derivePrivateKey(chain) call on a manager record m
DeriveResult(m, chain) ==
    IF chain \in DOMAIN m.derivedKeys
    THEN [m |-> m, threw |-> FALSE, value |-> m.derivedKeys[chain], fresh |-> FALSE]
    ELSE LET path == DERIVATION_PATHS(chain) IN
         IF FromPhraseThrows(m.mnemonic, path)
         THEN [m |-> m, threw |-> TRUE, value |-> NoKey, fresh |-> FALSE]
         ELSE LET privateKey == FromPhraseKey(m.mnemonic, path) IN
              [m |-> [m EXCEPT !.derivedKeys = Put(@, chain, privateKey)],
               threw |-> FALSE, value |-> privateKey, fresh |-> TRUE]

\* One call of derivePrivateKey(chain) on instance i: its effect on the
\* KeyManager and on the call record
DeriveStep(i, chain) ==
    LET r == DeriveResult(managers[i], chain)
        follows == ret.op = "clear" /\ ret.mgr = i
    IN
    /\ managers' = [managers EXCEPT ![i] = r.m]
    /\ derivations' = IF r.fresh
                      THEN [derivations EXCEPT ![i] = Bump(@, chain)]
                      ELSE derivations
    /\ ret' = [NoRet EXCEPT !.op = "derive", !.mgr = i, !.chain = chain,
                            !.threw = r.threw, !.value = r.value, !.fresh = r.fresh,
                            !.afterClear = follows,
                            !.prior = IF follows /\ chain \in DOMAIN ret.before
                                      THEN ret.before[chain] ELSE NoKey]

\* derivePrivateKey(chain) called on a KeyManager
derivePrivateKey(i, chain) ==
    /\ managers[i].alive
    /\ DeriveStep(i, chain)
    /\ UNCHANGED <<regVars, walletVars, adapterVars, seedVars, balanceVars, tradingVars>>

\* exportPrivateKeys(): derivePrivateKey for every key of DERIVATION_PATHS, in
\* order; the first throw ends the call.  derived: the chains a derivation ran for.
RECURSIVE ExportFrom(_, _, _, _)
ExportFrom(m, k, result, derived) ==
    IF k > Len(ChainOrder)
    THEN [m |-> m, threw |-> FALSE, result |-> result, derived |-> derived]
    ELSE LET chain == ChainOrder[k]
             r == DeriveResult(m, chain)
         IN IF r.threw
            THEN [m |-> r.m, threw |-> TRUE, result |-> <<>>, derived |-> derived]
            ELSE ExportFrom(r.m, k + 1, Put(result, chain, r.value),
                            IF r.fresh THEN derived \cup {chain} ELSE derived)

RECURSIVE BumpAll(_, _)
BumpAll(f, S) ==
    IF S = {} THEN f
    ELSE LET c == CHOOSE x \in S : TRUE IN BumpAll(Bump(f, c), S \ {c})

ExportStep(i) ==
    LET r == ExportFrom(managers[i], 1, <<>>, {}) IN
    /\ managers' = [managers EXCEPT ![i] = r.m]
    /\ derivations' = [derivations EXCEPT ![i] = BumpAll(@, r.derived)]
    /\ ret' = [NoRet EXCEPT !.op = "export", !.mgr = i, !.threw = r.threw,
                            !.exported = r.result, !.fresh = r.derived # {}]

\* exportPrivateKeys() called on a KeyManager
exportPrivateKeys(i) ==
    /\ managers[i].alive
    /\ ExportStep(i)
    /\ UNCHANGED <<regVars, walletVars, adapterVars, seedVars, balanceVars, tradingVars>>

\* Mutant: clear() evicts the EVM entries only.
clearEvmOnly(i) ==
    /\ managers[i].alive
    /\ managers' = [managers EXCEPT ![i].derivedKeys =
                       [c \in (DOMAIN @) \ EvmChains |-> @[c]]]
    /\ derivations' = [derivations EXCEPT ![i] = <<>>]
    /\ ret' = [NoRet EXCEPT !.op = "clear", !.mgr = i,
                            !.before = managers[i].derivedKeys]
    /\ UNCHANGED <<regVars, walletVars, adapterVars, seedVars, balanceVars, tradingVars>>

\* clear(): derivedKeys.clear()
clear(i) ==
    /\ managers[i].alive
    /\ managers' = [managers EXCEPT ![i].derivedKeys = <<>>]
    /\ derivations' = [derivations EXCEPT ![i] = <<>>]
    /\ ret' = [NoRet EXCEPT !.op = "clear", !.mgr = i,
                            !.before = managers[i].derivedKeys]
    /\ UNCHANGED <<regVars, walletVars, adapterVars, seedVars, balanceVars, tradingVars>>

\* Mutant: a chain that already has a factory keeps it (first write wins).
RegisterKeepFirst(registry, chain, factory) ==
    IF chain \in DOMAIN registry THEN registry ELSE Put(registry, chain, factory)

\* ChainRegistry[chain] = factory
Register(registry, chain, factory) == Put(registry, chain, factory)

\* registerChain(chain, factory), called by a user of the library
registerChain(chain, factory) ==
    /\ nRegister < MaxRegister
    /\ ChainRegistry' = Register(ChainRegistry, chain, factory)
    /\ latest' = Put(latest, chain, factory)
    /\ nRegister' = nRegister + 1
    /\ got' = [NoGot EXCEPT !.op = "registerChain", !.chain = chain,
                            !.registryBefore = ChainRegistry]
    /\ UNCHANGED <<moduleLoaded, kmVars, walletVars, adapterVars, seedVars, balanceVars, tradingVars>>

\* The registrations core/wallet.ts makes when the module is evaluated.  byCode:
\* the registry itself is written by registerChain; the record of the latest
\* registration per id is kept beside it.
RECURSIVE RegisterAll(_, _, _)
RegisterAll(registry, k, byCode) ==
    IF k > Len(ChainOrder) THEN registry
    ELSE LET chain == ChainOrder[k]
             factory == IF chain = "bitcoin" THEN bitcoinFactory
                        ELSE ethereumFactory(chain)
         IN RegisterAll(IF byCode THEN Register(registry, chain, factory)
                        ELSE Put(registry, chain, factory), k + 1, byCode)

LoadWalletModule ==
    /\ ~moduleLoaded
    /\ moduleLoaded' = TRUE
    /\ ChainRegistry' = RegisterAll(ChainRegistry, 1, TRUE)
    /\ latest' = RegisterAll(latest, 1, FALSE)
    /\ got' = [NoGot EXCEPT !.op = "load", !.registryBefore = ChainRegistry]
    /\ UNCHANGED <<nRegister, kmVars, walletVars, adapterVars, seedVars, balanceVars, tradingVars>>

\* the record of one getChain call
GetChainCall(chain, privateKey, rpcUrl) ==
    LET r == GetChainResult(ChainRegistry, chain, privateKey, rpcUrl) IN
    [op |-> "getChain", chain |-> chain, privateKey |-> privateKey,
     rpcUrl |-> rpcUrl, threw |-> r.threw, error |-> r.error,
     invoked |-> r.invoked, adapter |-> r.adapter,
     registryBefore |-> ChainRegistry]

\* getChain(chain, privateKey, rpcUrl)
getChain(chain, privateKey, rpcUrl) ==
    /\ got' = GetChainCall(chain, privateKey, rpcUrl)
    /\ UNCHANGED <<ChainRegistry, moduleLoaded, latest, nRegister, kmVars, walletVars, adapterVars, seedVars, balanceVars, tradingVars>>

\* the keys passed to getChain in the model
KeyInputs == {FromPhraseKey(SeedA, DERIVATION_PATHS("ethereum")),
              FromPhraseKey(SeedB, DERIVATION_PATHS("bitcoin"))}

RegistryNext ==
    \/ LoadWalletModule
    \/ \E c \in ChainIds, f \in FactoryInputs : registerChain(c, f)
    \/ \E c \in ChainIds, k \in KeyInputs, u \in RpcInputs : getChain(c, k, u)

SpecRegistry == Init /\ [][RegistryNext]_vars

KeyManagerNext(I, Ids) ==
    \/ \E i \in I, p \in PhraseInputs : NewKeyManager(i, p)
    \/ \E i \in I, c \in Ids : derivePrivateKey(i, c)
    \/ \E i \in I : exportPrivateKeys(i)
    \/ \E i \in I : clear(i)

\* one KeyManager instance, every chain id
SpecKeyManager == Init /\ [][KeyManagerNext({1}, ChainIds)]_vars

\* two independent KeyManager instances; direct derivePrivateKey calls for two
\* chains of the EVM family, bitcoin and an unknown id (exportPrivateKeys still
\* derives all five)
PairIds == {"ethereum", "polygon", "bitcoin", "solana"}

SpecTwoManagers == Init /\ [][KeyManagerNext(ManagerIds, PairIds)]_vars

(***************************************************************************)
(* ClawCashWallet (core/wallet.ts)                                         *)
(***************************************************************************)
WalletOps == {"getBalance", "estimateFee", "sendPayment", "signMessage"}

\* the chain ids wallet operations are called with in the model
WalletOpChains == {"ethereum", "bitcoin", "solana", "constructor"}

Idle == \A t \in TaskIds : tasks[t] = NoTask

\* new ClawCashWallet({mnemonic: arg}) with generated as the result of
\* generateMnemonic(), which is called only when the argument is falsy
ConstructWallet(w, via, arg, generated, rpcUrls) ==
    LET mnemonic == IF Falsy(arg) THEN generated ELSE arg.phrase IN
    IF ~validateMnemonic(mnemonic)
    THEN /\ wret' = [NoWret EXCEPT !.op = via, !.wallet = w, !.supplied = arg,
                                   !.threw = TRUE, !.error = "Invalid mnemonic phrase"]
         /\ UNCHANGED <<wallets, managers, derivations, ret>>
    ELSE /\ wallets' = [wallets EXCEPT ![w] = [alive |-> TRUE, supplied |-> arg,
                                               rpcUrls |-> rpcUrls]]
         /\ managers' = [managers EXCEPT ![w] =
                            [alive |-> TRUE, mnemonic |-> mnemonic, derivedKeys |-> <<>>]]
         /\ derivations' = [derivations EXCEPT ![w] = <<>>]
         /\ ret' = [NoRet EXCEPT !.op = "new", !.mgr = w]
         /\ wret' = [NoWret EXCEPT !.op = via, !.wallet = w, !.supplied = arg,
                                   !.built = TRUE, !.seed = mnemonic]

\* new ClawCashWallet(config) and createWallet(mnemonic), which only forwards
NewWallet(w, via, arg) ==
    /\ moduleLoaded
    /\ Idle
    /\ via \in {"constructor", "createWallet"}
    /\ \E e \in GeneratedEntropies :
          ConstructWallet(w, via, arg, entropyToMnemonic(e), <<>>)
    /\ UNCHANGED <<regVars, tasks, adapterVars, seedVars, balanceVars, tradingVars>>

\* the rpcUrls configurations of the model
RpcConfigs == {<<>>, [ethereum |-> CustomRpc], [polygon |-> CustomRpc, bitcoin |-> CustomRpc]}

\* new ClawCashWallet({mnemonic: arg, rpcUrls}): the config is stored as given
NewConfiguredWallet(w, arg, rpcUrls) ==
    /\ moduleLoaded
    /\ Idle
    /\ \E e \in GeneratedEntropies :
          ConstructWallet(w, "constructor", arg, entropyToMnemonic(e), rpcUrls)
    /\ UNCHANGED <<regVars, tasks, adapterVars, seedVars, balanceVars, tradingVars>>

\* importWallet(mnemonic): validates, then constructs
importWallet(w, arg) ==
    /\ moduleLoaded
    /\ Idle
    /\ IF ~ValidArg(arg)
       THEN /\ wret' = [NoWret EXCEPT !.op = "importWallet", !.wallet = w,
                                      !.supplied = arg, !.threw = TRUE,
                                      !.error = "Invalid mnemonic phrase"]
            /\ UNCHANGED <<wallets, managers, derivations, ret>>
       ELSE ConstructWallet(w, "importWallet", arg, arg.phrase, <<>>)
    /\ UNCHANGED <<regVars, tasks, adapterVars, seedVars, balanceVars, tradingVars>>

\* getChain(chain, this.keyManager.derivePrivateKey(chain)): the argument is
\* evaluated first, so the registry is consulted only if derivation returns.
\* The outcome of the expression and the registry's call record after it.
DeriveAndGetChain(w, chain) ==
    LET d == DeriveResult(managers[w], chain) IN
    IF d.threw
    THEN [threw |-> TRUE, error |-> DeriveError(managers[w].mnemonic),
          consulted |-> FALSE, adapter |-> NoAdapter, got |-> got]
    ELSE LET g == GetChainCall(chain, d.value, NoRpc) IN
         [threw |-> g.threw, error |-> g.error, consulted |-> TRUE,
          adapter |-> g.adapter, got |-> g]

\* getBalance(chain), estimateFee({chain}), sendPayment({chain}),
\* signMessage(message, chain) up to their first await
StartTokenOp(t, w, op, chain, token) ==
    /\ moduleLoaded
    /\ wallets[w].alive
    /\ tasks[t] = NoTask
    /\ DeriveStep(w, chain)
    /\ LET r == DeriveAndGetChain(w, chain) IN
       /\ got' = r.got
       /\ IF r.threw
          THEN /\ tasks' = tasks
               /\ wret' = [NoWret EXCEPT !.op = op, !.wallet = w, !.chain = chain,
                                         !.token = token,
                                         !.threw = TRUE, !.error = r.error,
                                         !.consulted = r.consulted,
                                         !.keysBefore = managers[w].derivedKeys,
                                         !.keysAfter = managers'[w].derivedKeys]
          ELSE /\ tasks' = [tasks EXCEPT ![t] =
                               [NoTask EXCEPT !.op = op, !.wallet = w, !.chain = chain,
                                              !.phase = "connect", !.token = token,
                                              !.adapter = r.adapter, !.connects = 1]]
               /\ wret' = wret
    /\ UNCHANGED <<ChainRegistry, moduleLoaded, latest, nRegister, wallets, adapterVars, seedVars, balanceVars, tradingVars>>

\* The four operations as the earlier calls make them: getBalance(chain) and
\* signMessage(message, chain), and payments in the chain's own currency
StartOp(t, w, op, chain) == StartTokenOp(t, w, op, chain, DefaultToken(op, chain))

\* await chainInstance.connect() settles in one of the four operations: a
\* failure rejects the operation, otherwise the adapter operation is called
\* and awaited
ConnectSettles(t, reachable) ==
    LET task == tasks[t]
        failure == ConnectThrows(task.adapter, reachable)
        after == OnConnectFailure(task)
    IN
    /\ task.op \in WalletOps
    /\ task.phase = "connect"
    /\ IF failure /\ ~ConnectFailureCaught(task.op)
       THEN IF after.phase = "rejected"
            THEN /\ tasks' = [tasks EXCEPT ![t] = NoTask]
                 /\ wret' = [NoWret EXCEPT !.op = task.op, !.wallet = task.wallet,
                                   !.chain = task.chain, !.threw = TRUE,
                                   !.token = task.token,
                                   !.error = "Failed to connect",
                                   !.consulted = TRUE, !.adapter = task.adapter,
                                   !.connects = task.connects,
                                   !.connectFailed = TRUE,
                                   !.keysBefore = managers[task.wallet].derivedKeys,
                                   !.keysAfter = managers[task.wallet].derivedKeys]
            ELSE /\ tasks' = [tasks EXCEPT ![t] = after]
                 /\ wret' = wret
       ELSE /\ tasks' = [tasks EXCEPT ![t].phase = "operate",
                                      ![t].operations = task.operations + 1,
                                      ![t].connectFailed = failure]
            /\ wret' = wret
    /\ UNCHANGED <<kmVars, regVars, wallets, adapterVars, seedVars, balanceVars, tradingVars>>

\* the awaited adapter operation settles and with it the wallet operation
OperationSettles(t, backendOk) ==
    LET task == tasks[t]
        r == TokenOutcome(task.adapter, task.op,
                          AdapterArgument(task.op, task.token), backendOk)
    IN
    /\ task.op \in WalletOps
    /\ task.phase = "operate"
    /\ tasks' = [tasks EXCEPT ![t] = NoTask]
    /\ wret' = [NoWret EXCEPT !.op = task.op, !.wallet = task.wallet,
                              !.chain = task.chain, !.threw = r.threw,
                              !.error = r.error, !.value = r.value,
                              !.consulted = TRUE, !.adapter = task.adapter,
                              !.connects = task.connects,
                              !.operations = task.operations,
                              !.connectFailed = task.connectFailed,
                              !.backendFailed =
                                  QueriesBackend(task.adapter, task.op, task.token)
                                  /\ ~backendOk,
                              !.raised = r.error,
                              !.token = task.token, !.symbol = r.symbol,
                              !.native = r.native, !.currency = r.currency,
                              !.keysBefore = managers[task.wallet].derivedKeys,
                              !.keysAfter = managers[task.wallet].derivedKeys]
    /\ UNCHANGED <<kmVars, regVars, wallets, adapterVars, seedVars, balanceVars, tradingVars>>

\* getAddresses(): iteration k of the loop up to its await
AddressIteration(t, w, k, addresses, failed) ==
    LET chain == AddressChains[k]
        r == DeriveAndGetChain(w, chain)
    IN
    /\ DeriveStep(w, chain)
    /\ got' = r.got
    /\ IF r.threw
       THEN /\ tasks' = [tasks EXCEPT ![t] = NoTask]
            /\ wret' = [NoWret EXCEPT !.op = "getAddresses", !.wallet = w,
                                      !.chain = chain, !.threw = TRUE,
                                      !.error = r.error, !.consulted = r.consulted,
                                      !.addresses = addresses, !.failed = failed]
       ELSE /\ tasks' = [tasks EXCEPT ![t] =
                            [NoTask EXCEPT !.op = "getAddresses", !.wallet = w,
                                           !.chain = chain, !.phase = "connect",
                                           !.adapter = r.adapter, !.k = k,
                                           !.addresses = addresses, !.failed = failed]]
            /\ wret' = wret
    /\ UNCHANGED <<ChainRegistry, moduleLoaded, latest, nRegister, wallets, adapterVars, seedVars, balanceVars, tradingVars>>

\* getAddresses() up to its first await
getAddresses(t, w) ==
    /\ moduleLoaded
    /\ wallets[w].alive
    /\ tasks[t] = NoTask
    /\ AddressIteration(t, w, 1, <<>>, {})

\* getAddresses(): after the loop, the bitcoin entry and the result
AddressesReturn(t, w, addresses, failed) ==
    LET d == DeriveResult(managers[w], "bitcoin") IN
    /\ DeriveStep(w, "bitcoin")
    /\ tasks' = [tasks EXCEPT ![t] = NoTask]
    /\ wret' = IF d.threw
               THEN [NoWret EXCEPT !.op = "getAddresses", !.wallet = w,
                                   !.chain = "bitcoin", !.threw = TRUE,
                                   !.error = DeriveError(managers[w].mnemonic),
                                   !.addresses = addresses, !.failed = failed]
               ELSE [NoWret EXCEPT !.op = "getAddresses", !.wallet = w,
                                   !.addresses = Put(addresses, "bitcoin",
                                                     getBitcoinAddress(d.value)),
                                   !.failed = failed]
    /\ UNCHANGED <<regVars, wallets, adapterVars, seedVars, balanceVars, tradingVars>>

\* getAddresses(): await chainInstance.connect() settles.  A failure caught by
\* the try/catch is dropped; the address is stored and the loop goes on to the
\* next await or to the end.
AddressConnectSettles(t, reachable) ==
    LET task == tasks[t]
        failure == ConnectThrows(task.adapter, reachable)
        addresses == Put(task.addresses, task.chain, getAddress(task.adapter))
        failed == IF failure THEN task.failed \cup {task.chain} ELSE task.failed
    IN
    /\ task.op = "getAddresses"
    /\ task.phase = "connect"
    /\ IF failure /\ ~ConnectFailureCaught(task.op)
       THEN /\ tasks' = [tasks EXCEPT ![t] = NoTask]
            /\ wret' = [NoWret EXCEPT !.op = "getAddresses", !.wallet = task.wallet,
                                      !.chain = task.chain, !.threw = TRUE,
                                      !.error = "Failed to connect",
                                      !.consulted = TRUE,
                                      !.addresses = task.addresses,
                                      !.failed = failed]
            /\ UNCHANGED <<kmVars, regVars, wallets, adapterVars, seedVars, balanceVars, tradingVars>>
       ELSE IF task.k < Len(AddressChains)
            THEN AddressIteration(t, task.wallet, task.k + 1, addresses, failed)
            ELSE AddressesReturn(t, task.wallet, addresses, failed)

\* wallet.exportMnemonic()
exportMnemonic(w) ==
    /\ wallets[w].alive
    /\ wret' = [NoWret EXCEPT !.op = "exportMnemonic", !.wallet = w,
                              !.seed = managers[w].mnemonic]
    /\ UNCHANGED <<kmVars, regVars, wallets, tasks, adapterVars, seedVars, balanceVars, tradingVars>>

\* wallet.exportPrivateKeys(): the KeyManager's exportPrivateKeys
walletExportPrivateKeys(w) ==
    /\ wallets[w].alive
    /\ ExportStep(w)
    /\ wret' = [NoWret EXCEPT !.op = "exportPrivateKeys", !.wallet = w,
                              !.keysBefore = managers[w].derivedKeys,
                              !.keysAfter = managers'[w].derivedKeys]
    /\ UNCHANGED <<regVars, wallets, tasks, adapterVars, seedVars, balanceVars, tradingVars>>

Next ==
    \/ LoadWalletModule
    \/ \E via \in {"constructor", "createWallet"}, a \in MnemonicArgs :
          NewWallet(1, via, a)
    \/ \E a \in MnemonicArgs : importWallet(1, a)
    \/ \E op \in WalletOps, c \in WalletOpChains : StartOp(1, 1, op, c)
    \/ \E reachable \in BOOLEAN : ConnectSettles(1, reachable)
    \/ \E backendOk \in BOOLEAN : OperationSettles(1, backendOk)
    \/ getAddresses(1, 1)
    \/ \E reachable \in BOOLEAN : AddressConnectSettles(1, reachable)
    \/ exportMnemonic(1)
    \/ walletExportPrivateKeys(1)

\* one wallet, the registry as the module loads it
Spec == Init /\ [][Next]_vars

\* the chains of the operations on a configured wallet
ConfiguredChains == {"ethereum", "polygon", "bitcoin"}

\* a wallet constructed with rpcUrls, its operations one at a time
ConfiguredNext ==
    \/ LoadWalletModule
    \/ \E a \in {NoArg, [given |-> TRUE, phrase |-> SeedA]}, u \in RpcConfigs :
          NewConfiguredWallet(1, a, u)
    \/ \E op \in WalletOps, c \in ConfiguredChains : StartOp(1, 1, op, c)
    \/ \E reachable \in BOOLEAN : ConnectSettles(1, reachable)
    \/ \E backendOk \in BOOLEAN : OperationSettles(1, backendOk)
    \/ getAddresses(1, 1)
    \/ AddressConnectSettles(1, TRUE)

SpecConfigured == Init /\ [][ConfiguredNext]_vars

\* a wallet's balance and payment operations called with a token, one at a time
TokenNext ==
    \/ LoadWalletModule
    \/ \E a \in {NoArg, [given |-> TRUE, phrase |-> SeedA]} : NewWallet(1, "constructor", a)
    \/ \E op \in {"getBalance", "estimateFee", "sendPayment"},
          c \in {"ethereum", "polygon", "bitcoin"},
          token \in {NoToken, "ETH", "MATIC", "USDT"} :
          StartTokenOp(1, 1, op, c, token)
    \/ \E reachable \in BOOLEAN : ConnectSettles(1, reachable)
    \/ \E backendOk \in BOOLEAN : OperationSettles(1, backendOk)

SpecTokens == Init /\ [][TokenNext]_vars

\* Two wallet operations of one wallet in flight at once, their steps
\* interleaved at the awaits, together with derivePrivateKey calls on the
\* wallet's KeyManager.  Each step between two awaits runs to completion.
ConcurrentNext ==
    \/ LoadWalletModule
    \/ \E p \in ValidPhrases : importWallet(1, [given |-> TRUE, phrase |-> p])
    \/ \E t \in TaskIds, op \in {"getBalance"}, c \in {"ethereum", "bitcoin"} :
          StartOp(t, 1, op, c)
    \/ \E t \in TaskIds, reachable \in BOOLEAN : ConnectSettles(t, reachable)
    \/ \E t \in TaskIds : OperationSettles(t, TRUE)
    \/ \E t \in TaskIds : getAddresses(t, 1)
    \/ \E t \in TaskIds : AddressConnectSettles(t, TRUE)
    \/ \E c \in {"ethereum", "bitcoin"} : derivePrivateKey(1, c)

SpecConcurrent == Init /\ [][ConcurrentNext]_vars

(***************************************************************************)
(* Chain adapters used directly (chains/evm/ethereum.ts, chains/bitcoin)    *)
(***************************************************************************)
\* new EthereumChain(chain, privateKey, rpcUrl) / new BitcoinChain(privateKey, rpcUrl)
NewAdapter(chain, privateKey, rpcUrl) ==
    LET a == IF chain = "bitcoin" THEN BitcoinChain(privateKey, rpcUrl)
             ELSE EthereumChain(chain, privateKey, rpcUrl)
    IN
    /\ instance' = [NoInstance EXCEPT !.alive = TRUE, !.adapter = a,
                                      !.address = getAddress(a)]
    /\ aret' = [NoAret EXCEPT !.op = "new"]
    /\ UNCHANGED <<kmVars, regVars, walletVars, seedVars, balanceVars, tradingVars>>

\* adapter.connect() with the backend reachable or not
connect(reachable) ==
    LET failure == ConnectThrows(instance.adapter, reachable) IN
    /\ instance.alive
    /\ instance' = [instance EXCEPT !.state = IF failure THEN @ ELSE "Connected"]
    /\ aret' = [NoAret EXCEPT !.op = "connect", !.threw = failure,
                              !.error = IF failure THEN "Failed to connect" ELSE "",
                              !.reachable = reachable,
                              !.queried = instance.adapter.kind = "EthereumChain",
                              !.before = instance]
    /\ UNCHANGED <<kmVars, regVars, walletVars, seedVars, balanceVars, tradingVars>>

\* adapter.disconnect(): both bodies are empty
disconnect ==
    /\ instance.alive
    /\ instance' = [instance EXCEPT !.state = "Disconnected"]
    /\ aret' = [NoAret EXCEPT !.op = "disconnect", !.before = instance]
    /\ UNCHANGED <<kmVars, regVars, walletVars, seedVars, balanceVars, tradingVars>>

\* adapter.getBalance(), estimateFee(params), sendTransaction(params) (the
\* operation behind the wallet's sendPayment) and signMessage(message)
adapterOperation(op, backendOk) ==
    LET r == AdapterOutcome(instance.adapter, op, backendOk) IN
    /\ instance.alive
    /\ op \in WalletOps
    /\ aret' = [NoAret EXCEPT !.op = op, !.threw = r.threw, !.error = r.error,
                              !.value = r.value, !.reachable = backendOk,
                              !.queried = NeedsBackend(instance.adapter, op),
                              !.before = instance]
    /\ UNCHANGED <<instance, kmVars, regVars, walletVars, seedVars, balanceVars, tradingVars>>

\* adapter.getAddress()
adapterGetAddress ==
    /\ instance.alive
    /\ instance' = [instance EXCEPT !.first = IF @ = NoAddress THEN instance.address
                                              ELSE @]
    /\ aret' = [NoAret EXCEPT !.op = "getAddress", !.address = instance.address,
                              !.repeat = instance.first # NoAddress,
                              !.before = instance]
    /\ UNCHANGED <<kmVars, regVars, walletVars, seedVars, balanceVars, tradingVars>>

AdapterNext ==
    \/ \E c \in Chains, k \in KeyInputs, u \in RpcInputs : NewAdapter(c, k, u)
    \/ \E reachable \in BOOLEAN : connect(reachable)
    \/ disconnect
    \/ \E op \in WalletOps, backendOk \in BOOLEAN : adapterOperation(op, backendOk)
    \/ adapterGetAddress

\* one adapter object and the calls a user of the class can make
SpecAdapter == Init /\ [][AdapterNext]_vars

(***************************************************************************)
(* Seed-module functions called directly (core/mnemonic.ts)                *)
(***************************************************************************)
\* the phrase strings callers pass: up to three tokens
SeedPhrases ==
    {<<>>} \cup {<<a>> : a \in PhraseTokens}
           \cup {<<a, b>> : a \in PhraseTokens, b \in PhraseTokens}
           \cup {<<a, b, c>> : a \in PhraseTokens, b \in PhraseTokens, c \in {0, Gap}}

\* generateMnemonic(): e is the entropy crypto.getRandomValues produced
generateMnemonic(e) ==
    /\ sret' = [NoSret EXCEPT !.op = "generateMnemonic", !.entropy = e,
                              !.result = entropyToMnemonic(e)]
    /\ UNCHANGED <<kmVars, regVars, walletVars, adapterVars, balanceVars, tradingVars>>

\* Mutant: validateMnemonic without its try/catch.
ValidateOutcomeNoCatch(p) ==
    [threw |-> ~validateMnemonic(p), valid |-> validateMnemonic(p)]

\* validateMnemonic's body: whatever Mnemonic.fromPhrase throws is caught and
\* turned into false
ValidateOutcome(p) == [threw |-> FALSE, valid |-> validateMnemonic(p)]

\* validateMnemonic(mnemonic)
callValidateMnemonic(p) ==
    /\ sret' = [NoSret EXCEPT !.op = "validateMnemonic", !.phrase = p,
                              !.threw = ValidateOutcome(p).threw,
                              !.valid = ValidateOutcome(p).valid]
    /\ UNCHANGED <<kmVars, regVars, walletVars, adapterVars, balanceVars, tradingVars>>

\* mnemonicToEntropy(mnemonic): Mnemonic.fromPhrase throws on an invalid phrase
callMnemonicToEntropy(p) ==
    /\ sret' = IF validateMnemonic(p)
               THEN [NoSret EXCEPT !.op = "mnemonicToEntropy", !.phrase = p,
                                   !.valid = TRUE, !.entropy = mnemonicToEntropy(p)]
               ELSE [NoSret EXCEPT !.op = "mnemonicToEntropy", !.phrase = p,
                                   !.threw = TRUE]
    /\ UNCHANGED <<kmVars, regVars, walletVars, adapterVars, balanceVars, tradingVars>>

\* entropyToMnemonic(entropy)
callEntropyToMnemonic(e) ==
    /\ sret' = [NoSret EXCEPT !.op = "entropyToMnemonic", !.entropy = e,
                              !.result = entropyToMnemonic(e)]
    /\ UNCHANGED <<kmVars, regVars, walletVars, adapterVars, balanceVars, tradingVars>>

SeedNext ==
    \/ \E e \in Entropies : generateMnemonic(e)
    \/ \E p \in SeedPhrases : callValidateMnemonic(p)
    \/ \E p \in SeedPhrases : callMnemonicToEntropy(p)
    \/ \E e \in Entropies : callEntropyToMnemonic(e)

SpecSeed == Init /\ [][SeedNext]_vars

(***************************************************************************)
(* BalanceManager actions                                                  *)
(***************************************************************************)

\* new BalanceManager(wallet), the wallet constructed without a mnemonic
NewBalanceManager(seed) ==
    /\ btask = NoBtask
    /\ bm' = [NoBalanceManager EXCEPT !.alive = TRUE, !.seed = seed]
    /\ bret' = [NoBret EXCEPT !.op = "new", !.seed = seed]
    /\ UNCHANGED <<now, btask, kmVars, regVars, walletVars, adapterVars, seedVars,
                   tradingVars>>

\* time passes: the clock advances in steps of half the default time to
\* live, MaxTicks times
Tick ==
    LET step == DefaultCacheTtl \div 2 IN
    /\ now + step <= MaxTicks * step
    /\ now' = now + step
    /\ UNCHANGED <<bm, btask, bret, kmVars, regVars, walletVars, adapterVars,
                   seedVars, tradingVars>>

\* getBalance(chain, token, useCache) up to its return from the cache or its
\* await of wallet.getBalance
getBalance(chain, token, useCache) ==
    LET key == CacheKey(chain, token) IN
    /\ bm.alive
    /\ btask = NoBtask
    /\ IF useCache /\ Fresh(bm.cache, key, bm.cacheTtl, now)
       THEN /\ bret' = [NoBret EXCEPT !.op = "getBalance", !.chain = chain,
                                      !.token = token, !.useCache = useCache,
                                      !.balance = bm.cache[key].balance,
                                      !.checked = IF key \in DOMAIN bm.cache
                                                 THEN bm.cache[key] ELSE NoEntry,
                                      !.checkAt = now, !.checkTtl = bm.cacheTtl]
            /\ btask' = btask
       ELSE /\ btask' = [NoBtask EXCEPT !.op = "getBalance", !.chain = chain,
                                        !.token = token, !.useCache = useCache,
                                        !.phase = "fetch", !.fetches = 1,
                                        !.checked = IF key \in DOMAIN bm.cache
                                                 THEN bm.cache[key] ELSE NoEntry,
                                        !.checkAt = now, !.checkTtl = bm.cacheTtl]
            /\ bret' = bret
    /\ UNCHANGED <<bm, now, kmVars, regVars, walletVars, adapterVars, seedVars,
                   tradingVars>>

\* await this.wallet.getBalance(chain, token) settles in getBalance: a
\* rejection propagates, a Balance is stored under the key and returned
BalanceSettles(reachable, backendOk) ==
    LET key == CacheKey(btask.chain, btask.token)
        r == WalletGetBalance(btask.chain, btask.token, reachable, backendOk)
        balance == [symbol |-> r.symbol, at |-> now]
        done == [NoBret EXCEPT !.op = "getBalance", !.chain = btask.chain,
                               !.token = btask.token, !.useCache = btask.useCache,
                               !.checked = btask.checked,
                               !.checkAt = btask.checkAt,
                               !.checkTtl = btask.checkTtl,
                               !.fetches = btask.fetches]
    IN
    /\ btask.op = "getBalance"
    /\ btask.phase = "fetch"
    /\ btask' = NoBtask
    /\ IF r.threw
       THEN /\ bm' = bm
            /\ bret' = [done EXCEPT !.threw = TRUE, !.error = r.error]
       ELSE /\ bm' = [bm EXCEPT !.cache =
                          Put(@, key, [balance |-> balance, timestamp |-> now])]
            /\ bret' = [done EXCEPT !.balance = balance]
    /\ UNCHANGED <<now, kmVars, regVars, walletVars, adapterVars, seedVars,
                   tradingVars>>

\* clearCache(): cache.clear()
clearCache ==
    /\ bm.alive
    /\ bm' = [bm EXCEPT !.cache = <<>>]
    /\ UNCHANGED <<now, btask, bret, kmVars, regVars, walletVars, adapterVars,
                   seedVars, tradingVars>>

\* setCacheTtl(ms)
setCacheTtl(ms) ==
    /\ bm.alive
    /\ bm' = [bm EXCEPT !.cacheTtl = ms]
    /\ UNCHANGED <<now, btask, bret, kmVars, regVars, walletVars, adapterVars,
                   seedVars, tradingVars>>

\* one BalanceManager, its getBalance calls one at a time
BalanceNext ==
    \/ NewBalanceManager(0)
    \/ Tick
    \/ \E c \in {"ethereum"}, token \in {NoToken, "USDT"}, useCache \in BOOLEAN :
          getBalance(c, token, useCache)
    \/ \E reachable, backendOk \in BOOLEAN : BalanceSettles(reachable, backendOk)
    \/ clearCache
    \/ \E ms \in {0, DefaultCacheTtl \div 2} : setCacheTtl(ms)

SpecBalance == Init /\ [][BalanceNext]_vars

\* results.push({chain, address: addresses[chain], balances: [...]}) of the try
\* branch
BalanceSummary(seed, chain, balance) ==
    [chain |-> chain, address |-> WalletAddress(seed, chain), balances |-> <<balance>>]

\* Mutant: the catch branch pushes nothing.
FailedResultsSkip(results, seed, chain) == results

\* the catch branch: results.push({chain, address: addresses[chain], balances: []})
FailedResults(results, seed, chain) ==
    Append(results, [chain |-> chain, address |-> WalletAddress(seed, chain),
                     balances |-> <<>>])

\* The loop of getAllBalances from iteration k while this.getBalance(chain)
\* answers from the cache: it stops at the first chain that needs a fetch, or
\* past the last chain
RECURSIVE AllBalancesFrom(_, _, _)
AllBalancesFrom(cache, k, results) ==
    IF k > Len(AllBalanceChains) THEN [k |-> k, results |-> results]
    ELSE LET chain == AllBalanceChains[k]
             key == CacheKey(chain, NoToken)
         IN IF Fresh(cache, key, bm.cacheTtl, now)
            THEN AllBalancesFrom(cache, k + 1,
                     Append(results, BalanceSummary(bm.seed, chain, cache[key].balance)))
            ELSE [k |-> k, results |-> results]

\* the loop goes on after iteration k - 1: to the await of the next fetch or
\* to the return
AllBalancesContinue(cache, k, results, failed, fetches) ==
    LET next == AllBalancesFrom(cache, k, results) IN
    IF next.k > Len(AllBalanceChains)
    THEN /\ btask' = NoBtask
         /\ bret' = [NoBret EXCEPT !.op = "getAllBalances", !.results = next.results,
                                   !.failed = failed, !.fetches = fetches,
                                   !.seed = bm.seed]
    ELSE /\ btask' = [NoBtask EXCEPT !.op = "getAllBalances", !.phase = "fetch",
                                     !.chain = AllBalanceChains[next.k],
                                     !.k = next.k, !.results = next.results,
                                     !.failed = failed, !.fetches = fetches + 1]
         /\ bret' = bret

\* getAllBalances() up to its await of wallet.getAddresses()
getAllBalances ==
    /\ bm.alive
    /\ btask = NoBtask
    /\ btask' = [NoBtask EXCEPT !.op = "getAllBalances", !.phase = "addresses"]
    /\ UNCHANGED <<bm, now, bret, kmVars, regVars, walletVars, adapterVars, seedVars,
                   tradingVars>>

\* wallet.getAddresses() resolves and the loop starts
AllAddressesSettle ==
    /\ btask.op = "getAllBalances"
    /\ btask.phase = "addresses"
    /\ AllBalancesContinue(bm.cache, 1, <<>>, {}, 0)
    /\ UNCHANGED <<bm, now, kmVars, regVars, walletVars, adapterVars, seedVars,
                   tradingVars>>

\* await this.getBalance(chain) settles in the loop: the Balance is cached and
\* pushed, or the rejection is caught; then the loop goes on
AllBalancesSettles(reachable, backendOk) ==
    LET chain == btask.chain
        r == WalletGetBalance(chain, NoToken, reachable, backendOk)
        balance == [symbol |-> r.symbol, at |-> now]
        cache == IF r.threw THEN bm.cache
                 ELSE Put(bm.cache, CacheKey(chain, NoToken),
                          [balance |-> balance, timestamp |-> now])
        results == IF r.threw THEN FailedResults(btask.results, bm.seed, chain)
                   ELSE Append(btask.results, BalanceSummary(bm.seed, chain, balance))
        failed == IF r.threw THEN btask.failed \cup {chain} ELSE btask.failed
    IN
    /\ btask.op = "getAllBalances"
    /\ btask.phase = "fetch"
    /\ bm' = [bm EXCEPT !.cache = cache]
    /\ AllBalancesContinue(cache, btask.k + 1, results, failed, btask.fetches)
    /\ UNCHANGED <<now, kmVars, regVars, walletVars, adapterVars, seedVars,
                   tradingVars>>

\* one BalanceManager, its getAllBalances calls one at a time and within the
\* time to live of what they cache
AllBalancesNext ==
    \/ \E e \in GeneratedEntropies : NewBalanceManager(e)
    \/ getAllBalances
    \/ AllAddressesSettle
    \/ \E reachable, backendOk \in BOOLEAN : AllBalancesSettles(reachable, backendOk)
    \/ clearCache

SpecAllBalances == Init /\ [][AllBalancesNext]_vars

(***************************************************************************)
(* TradingManager actions                                                  *)
(***************************************************************************)

\* addExchange(name, config): factory({...config, name}) is a BinanceExchange
\* with connected = false (Object(config) is the config object, which has no
\* methods); the new instance replaces the one of that name
addExchange(name, config) ==
    LET key == toLowerCase(name)
        factory == ExchangeRegistry(key)
    IN
    IF factory = "undefined"
    THEN /\ tret' = [NoTret EXCEPT !.op = "addExchange", !.name = name,
                                   !.threw = TRUE, !.error = "not supported"]
         /\ UNCHANGED <<exchanges, ttask, connectLog, kmVars, regVars, walletVars,
                        adapterVars, seedVars, balanceVars>>
    ELSE /\ exchanges' = Put(exchanges, key,
                             [kind |-> factory, apiKey |-> config.apiKey,
                              apiSecret |-> config.apiSecret, connected |-> FALSE])
         /\ ttask' = IF ttask.phase = "ping" /\ ttask.key = key
                     THEN [ttask EXCEPT !.detached = TRUE] ELSE ttask
         /\ connectLog' = Put(connectLog, key, "none")
         /\ tret' = [NoTret EXCEPT !.op = "addExchange", !.name = name]
         /\ UNCHANGED <<kmVars, regVars, walletVars, adapterVars, seedVars,
                        balanceVars>>

\* TradingManager.connect(name) up to its throw or to the await of the ping
\* in BinanceExchange.connect
TradingConnect(name) ==
    LET key == toLowerCase(name)
        error == CASE key \notin DOMAIN exchanges -> "not configured"
                   [] exchanges[key].kind # "BinanceExchange" ->
                        "exchange.connect is not a function"
                   [] exchanges[key].apiKey = "" \/ exchanges[key].apiSecret = "" ->
                        "Binance API key and secret required for trading"
                   [] OTHER -> ""
    IN
    /\ ttask = NoTtask
    /\ IF error # ""
       THEN /\ tret' = [NoTret EXCEPT !.op = "connect", !.name = name,
                                      !.threw = TRUE, !.error = error]
            /\ connectLog' = Put(connectLog, key, "threw")
            /\ ttask' = ttask
       ELSE /\ ttask' = [NoTtask EXCEPT !.name = name, !.key = key, !.phase = "ping"]
            /\ UNCHANGED <<tret, connectLog>>
    /\ UNCHANGED <<exchanges, kmVars, regVars, walletVars, adapterVars, seedVars,
                   balanceVars>>

\* await fetch(baseUrl + '/v3/ping') settles: a response, whatever its
\* status, lets connect() return; a rejection is rethrown
PingSettles(outcome) ==
    LET key == ttask.key IN
    /\ ttask.phase = "ping"
    /\ ttask' = NoTtask
    /\ tret' = [NoTret EXCEPT !.op = "connect", !.name = ttask.name,
                              !.threw = (outcome = "network error"),
                              !.error = IF outcome = "network error"
                                        THEN "Failed to connect to Binance" ELSE ""]
    /\ IF ttask.detached
       THEN UNCHANGED <<exchanges, connectLog>>
       ELSE /\ exchanges' = [exchanges EXCEPT ![key].connected =
                                IF outcome = "ok" THEN TRUE ELSE @]
            /\ connectLog' = Put(connectLog, key,
                                 IF outcome = "network error" THEN "threw"
                                 ELSE "returned")
    /\ UNCHANGED <<kmVars, regVars, walletVars, adapterVars, seedVars, balanceVars>>

\* TradingManager.disconnect(name)
TradingDisconnect(name) ==
    LET key == toLowerCase(name) IN
    /\ IF key \in DOMAIN exchanges
       THEN IF exchanges[key].kind = "BinanceExchange"
            THEN /\ exchanges' = [exchanges EXCEPT ![key].connected = FALSE]
                 /\ tret' = [NoTret EXCEPT !.op = "disconnect", !.name = name]
            ELSE /\ exchanges' = exchanges
                 /\ tret' = [NoTret EXCEPT !.op = "disconnect", !.name = name,
                                           !.threw = TRUE,
                                           !.error = "exchange.disconnect is not a function"]
       ELSE /\ exchanges' = exchanges
            /\ tret' = [NoTret EXCEPT !.op = "disconnect", !.name = name]
    /\ connectLog' = Put(connectLog, key, "none")
    /\ UNCHANGED <<ttask, kmVars, regVars, walletVars, adapterVars, seedVars,
                   balanceVars>>

\* What isConnected(exchange) does: ex ? ex.isConnected() : false
IsConnectedResult(name) ==
    LET key == toLowerCase(name) IN
    CASE key \notin DOMAIN exchanges -> [threw |-> FALSE, value |-> FALSE]
      [] exchanges[key].kind # "BinanceExchange" -> [threw |-> TRUE, value |-> FALSE]
      [] OTHER -> [threw |-> FALSE, value |-> exchanges[key].connected]

\* TradingManager.isConnected(exchange)
isConnected(name) ==
    LET r == IsConnectedResult(name) IN
    /\ tret' = [NoTret EXCEPT !.op = "isConnected", !.name = name,
                              !.threw = r.threw, !.value = r.value,
                              !.error = IF r.threw
                                        THEN "ex.isConnected is not a function" ELSE ""]
    /\ UNCHANGED <<exchanges, ttask, connectLog, kmVars, regVars, walletVars,
                   adapterVars, seedVars, balanceVars>>

\* one TradingManager, one connect() in flight at a time
TradingNext ==
    \/ \E name \in ExchangeNames,
          config \in {[apiKey |-> "k", apiSecret |-> "s"],
                      [apiKey |-> "k", apiSecret |-> ""],
                      [apiKey |-> "", apiSecret |-> ""]} : addExchange(name, config)
    \/ \E name \in ExchangeNames : TradingConnect(name)
    \/ \E outcome \in {"ok", "error status", "network error"} : PingSettles(outcome)
    \/ \E name \in ExchangeNames : TradingDisconnect(name)
    \/ \E name \in ExchangeNames : isConnected(name)

SpecTrading == Init /\ [][TradingNext]_vars

(***************************************************************************)
(* Claims about the KeyManager                                             *)
(***************************************************************************)

\* C1: derivation is deterministic.  Every key derivePrivateKey returns, and
\* every key an instance holds, is the one value fixed by (seed phrase, chain),
\* whatever calls were interleaved; so two calls on one instance agree, and two
\* instances built from the same phrase agree.
C1_Determinism ==
    /\ \A i \in ManagerIds : \A c \in DOMAIN managers[i].derivedKeys :
          managers[i].derivedKeys[c] =
              FromPhraseKey(managers[i].mnemonic, DERIVATION_PATHS(c))
    /\ (ret.op = "derive" /\ ~ret.threw) =>
          /\ ret.value = FromPhraseKey(managers[ret.mgr].mnemonic,
                                       DERIVATION_PATHS(ret.chain))
          /\ \A j \in ManagerIds :
                (/\ managers[j].alive
                 /\ managers[j].mnemonic = managers[ret.mgr].mnemonic
                 /\ ret.chain \in DOMAIN managers[j].derivedKeys)
                => ret.value = managers[j].derivedKeys[ret.chain]

\* C1 witness: a repeated call on one instance returned a key while the other
\* instance, built from the same phrase, holds a key for the same chain.
C1_Witness ==
    /\ ret.op = "derive" /\ ~ret.threw /\ ~ret.fresh /\ ret.chain = "bitcoin"
    /\ \E j \in ManagerIds \ {ret.mgr} :
          /\ managers[j].alive
          /\ managers[j].mnemonic = managers[ret.mgr].mnemonic
          /\ "bitcoin" \in DOMAIN managers[j].derivedKeys
          /\ "ethereum" \in DOMAIN managers[j].derivedKeys

\* C2: between construction (or the last clear()) and the next clear() the HD
\* derivation for a chain runs at most once in an instance, and a call for a
\* chain that is already cached returns the cached key without deriving.
C2_DeriveAtMostOnce ==
    /\ \A i \in ManagerIds : \A c \in DOMAIN derivations[i] : derivations[i][c] <= 1
    /\ \A i \in ManagerIds :
          DOMAIN derivations[i] = DOMAIN managers[i].derivedKeys
    /\ (ret.op = "derive" /\ ~ret.threw) =>
          ret.value = managers[ret.mgr].derivedKeys[ret.chain]

\* C2 witness: a second call for a chain was answered from the cache.
C2_Witness ==
    /\ ret.op = "derive" /\ ~ret.threw /\ ~ret.fresh
    /\ derivations[ret.mgr][ret.chain] = 1

\* C3: clear() evicts the whole cache: right after it no chain is cached, the
\* derivePrivateKey that follows it derives afresh, and the key it returns is
\* the key the instance held for that chain before the clear.
C3_ClearEvicts ==
    /\ ret.op = "clear" => managers[ret.mgr].derivedKeys = <<>>
    /\ (ret.op = "derive" /\ ret.afterClear /\ ~ret.threw) =>
          /\ ret.fresh
          /\ ret.prior # NoKey => ret.value = ret.prior

\* C3 witness: a key that was cached before clear() has been derived again
\* right after it.
C3_Witness ==
    /\ ret.op = "derive" /\ ret.afterClear /\ ~ret.threw
    /\ ret.prior # NoKey /\ ret.chain = "bitcoin"

\* C4: exportPrivateKeys() returns exactly one entry for each of the five
\* chains, each the key derivePrivateKey returns for that chain, whatever was
\* cached before; afterwards all five chains are cached.
C4_ExportAll ==
    (ret.op = "export" /\ validateMnemonic(managers[ret.mgr].mnemonic)) =>
        /\ ~ret.threw
        /\ DOMAIN ret.exported = Chains
        /\ Chains \subseteq DOMAIN managers[ret.mgr].derivedKeys
        /\ \A c \in Chains :
              /\ ~DeriveResult(managers[ret.mgr], c).threw
              /\ ret.exported[c] = DeriveResult(managers[ret.mgr], c).value
              /\ ret.exported[c] = FromPhraseKey(managers[ret.mgr].mnemonic,
                                                 DERIVATION_PATHS(c))

\* C4 witness: an export that found some chains cached and derived the others.
C4_Witness ==
    /\ ret.op = "export" /\ ~ret.threw /\ ret.fresh
    /\ derivations[ret.mgr] = [c \in Chains |-> 1]

\* C5: construction is the validation gate: no KeyManager instance holds a
\* phrase that fails validation, so derivePrivateKey never throws for a known
\* chain.
C5_ConstructionGate ==
    /\ \A i \in ManagerIds :
          managers[i].alive => validateMnemonic(managers[i].mnemonic)
    /\ (ret.op = "derive" /\ ret.threw) => ret.chain \notin Chains

(***************************************************************************)
(* Claims about the chain registry                                         *)
(***************************************************************************)

\* C7: getChain for a chain id that has no registered factory raises the
\* registry's "not implemented" error, invokes nothing, builds nothing and
\* leaves the registry as it was; for a registered id it returns what that
\* id's factory builds from the given key and override.
C7_UnsupportedChain ==
    got.op = "getChain" =>
        IF got.chain \notin DOMAIN got.registryBefore
        THEN /\ got.threw /\ got.error = "Chain not implemented"
             /\ got.invoked = Undefined /\ got.adapter = NoAdapter
             /\ ChainRegistry = got.registryBefore
        ELSE /\ ~got.threw
             /\ got.adapter = ApplyFactory(got.registryBefore[got.chain],
                                           got.privateKey, got.rpcUrl)
             /\ ChainRegistry = got.registryBefore

\* C9: last write wins.  getChain uses, for every id that was ever registered,
\* the factory of the most recent registerChain for that id; a registerChain
\* leaves what every other id resolves to unchanged; once core/wallet.ts is
\* loaded all five chains are registered.
C9_LastWriteWins ==
    /\ \A c \in DOMAIN latest : \A k \in KeyInputs, u \in RpcInputs :
          LET r == GetChainResult(ChainRegistry, c, k, u) IN
          /\ ~r.threw /\ r.invoked = latest[c]
          /\ r.adapter = ApplyFactory(latest[c], k, u)
    /\ (got.op = "getChain" /\ got.chain \in DOMAIN latest) =>
          /\ ~got.threw /\ got.invoked = latest[got.chain]
          /\ got.adapter = ApplyFactory(latest[got.chain], got.privateKey, got.rpcUrl)
    /\ got.op = "registerChain" =>
          \A c \in ChainIds \ {got.chain} :
              Lookup(ChainRegistry, c) = Lookup(got.registryBefore, c)
    /\ moduleLoaded => Chains \subseteq DOMAIN ChainRegistry

\* C9 witness: a caller's registerChain replaced the factory module
\* initialisation had registered for "ethereum", and getChain used the new one.
C9_Witness ==
    /\ moduleLoaded /\ got.op = "getChain" /\ got.chain = "ethereum"
    /\ latest["ethereum"] = bitcoinFactory /\ latest["polygon"] = ethereumFactory("polygon")
    /\ got.invoked = bitcoinFactory /\ got.adapter.kind = "BitcoinChain"

(***************************************************************************)
(* Claims about the wallet                                                 *)
(***************************************************************************)

\* C6: a caller-supplied mnemonic string that fails validateMnemonic (the empty
\* string included) makes the ClawCashWallet constructor, createWallet and
\* importWallet throw and build no wallet; and a wallet built from a supplied
\* string has exactly that string as its seed.
C6_InvalidMnemonicRejected ==
    wret.op \in {"constructor", "createWallet", "importWallet"} /\ wret.supplied.given =>
        /\ ~validateMnemonic(wret.supplied.phrase) => wret.threw /\ ~wret.built
        /\ wret.built => wret.seed = wret.supplied.phrase

\* C8: a wallet operation (getBalance, estimateFee, sendPayment, signMessage)
\* for a chain id with no registered factory fails with the registry's
\* "not implemented" error, raised by getChain and not earlier by key
\* derivation, and leaves the derived-key cache as it was.
C8_WalletUnsupportedChain ==
    wret.op \in WalletOps /\ wret.chain \notin DOMAIN ChainRegistry =>
        /\ wret.threw
        /\ wret.error = "Chain not implemented"
        /\ wret.consulted
        /\ wret.keysAfter = wret.keysBefore

\* C10: getAddresses() never rejects, whichever connect() calls fail: its
\* result has an address for each of ethereum, polygon, bsc, arbitrum and
\* bitcoin, built from that chain's key of the wallet.
C10_GetAddressesNeverRaises ==
    wret.op = "getAddresses" =>
        /\ ~wret.threw
        /\ DOMAIN wret.addresses = Chains
        /\ \A c \in Chains :
              /\ wret.addresses[c].prefix # ""
              /\ wret.addresses[c].key =
                     FromPhraseKey(managers[wret.wallet].mnemonic, DERIVATION_PATHS(c))

\* getAddresses() has returned although connect() failed on all four EVM chains
C10_Witness ==
    /\ wret.op = "getAddresses"
    /\ ~wret.threw
    /\ wret.failed = EvmChains

C12_ConnectRequired ==
    /\ \A t \in TaskIds :
          tasks[t].op \in WalletOps /\ tasks[t].phase = "operate" =>
              tasks[t].connects = 1 /\ ~tasks[t].connectFailed
    /\ wret.op \in WalletOps =>
          /\ wret.connectFailed =>
                /\ wret.threw
                /\ wret.error = "Failed to connect"
                /\ wret.operations = 0
                /\ wret.value = ""
          /\ wret.operations > 0 => wret.connects > 0 /\ ~wret.connectFailed
          /\ wret.raised # "" => wret.threw /\ wret.error = wret.raised

\* sendPayment on an EVM chain whose backend is unreachable has rejected with
\* the connection error
C12_Witness ==
    /\ wret.op = "sendPayment"
    /\ wret.adapter.kind = "EthereumChain"
    /\ wret.connectFailed
    /\ wret.threw
    /\ wret.operations = 0

\* C13: for EVM and Bitcoin alike, when the backend call of getBalance,
\* estimateFee or sendPayment fails the operation raises an error; it never
\* returns a zero balance or a default fee estimate instead.
C13_BackendFailureRaises ==
    wret.op \in {"getBalance", "estimateFee", "sendPayment"} /\ wret.backendFailed =>
        /\ wret.threw
        /\ wret.value \notin {"zero balance", "default fee"}

C16_OperationsNeedConnected ==
    /\ aret.op \in {"getBalance", "estimateFee", "sendPayment"}
    /\ aret.before.state = "Disconnected"
    => aret.threw /\ ~aret.queried

\* C17: getAddress() and signMessage() work in every connection state, issue
\* no backend query and leave the adapter as it was; getAddress() returns the
\* address built from the private key alone, the same on every call.
C17_LocalOperations ==
    aret.op \in {"getAddress", "signMessage"} =>
        /\ ~aret.threw
        /\ ~aret.queried
        /\ instance.adapter = aret.before.adapter
        /\ instance.address = aret.before.address
        /\ instance.state = aret.before.state
        /\ aret.op = "getAddress" =>
              /\ aret.address = instance.first
              /\ aret.address # NoAddress
              /\ aret.address.key = instance.adapter.privateKey
              /\ \A u \in RpcInputs :
                    LET other == IF instance.adapter.kind = "BitcoinChain"
                                 THEN BitcoinChain(instance.adapter.privateKey, u)
                                 ELSE EthereumChain(instance.adapter.chain,
                                                    instance.adapter.privateKey, u)
                    IN AddressText(getAddress(other)) = AddressText(aret.address)

\* a second getAddress() on an adapter that was connected and then disconnected
C17_Witness ==
    /\ aret.op = "getAddress"
    /\ aret.repeat
    /\ instance.state = "Disconnected"
    /\ instance.adapter.kind = "BitcoinChain"

(***************************************************************************)
(* Claims about key material                                               *)
(***************************************************************************)

\* C18: derived private-key material reaches the caller only through
\* exportPrivateKeys: no address that getAddresses() returns contains digits
\* of a derived private key.
C18_NoKeyMaterialInAddresses ==
    wret.op = "getAddresses" /\ ~wret.threw =>
        \A c \in DOMAIN wret.addresses :
            LET text == AddressText(wret.addresses[c]) IN
            \A k \in 1..Len(text) : text[k].src # "key"

\* C19: the derived-key cache is race-safe.  However two wallet operations and
\* derivePrivateKey calls on one KeyManager interleave, every key handed out
\* (returned, given to an adapter, or behind a reported address) is the key of
\* its chain, and every cache entry is the key of its chain.
C19_RaceSafeCache ==
    LET Key(w, c) == FromPhraseKey(managers[w].mnemonic, DERIVATION_PATHS(c)) IN
    /\ \A w \in ManagerIds : \A c \in DOMAIN managers[w].derivedKeys :
          managers[w].derivedKeys[c] = Key(w, c)
    /\ ret.op = "derive" /\ ~ret.threw => ret.value = Key(ret.mgr, ret.chain)
    /\ \A t \in TaskIds :
          tasks[t].op # "none" =>
              /\ tasks[t].adapter.privateKey = Key(tasks[t].wallet, tasks[t].chain)
              /\ \A c \in DOMAIN tasks[t].addresses :
                    tasks[t].addresses[c].key = Key(tasks[t].wallet, c)
    /\ wret.op = "getAddresses" /\ ~wret.threw =>
          \A c \in DOMAIN wret.addresses : wret.addresses[c].key = Key(wret.wallet, c)

\* two getAddresses() calls of one wallet are suspended at the connect() of the
\* same chain
C19_Witness ==
    /\ tasks[1].op = "getAddresses"
    /\ tasks[2].op = "getAddresses"
    /\ tasks[1].phase = "connect"
    /\ tasks[2].phase = "connect"
    /\ tasks[1].chain = tasks[2].chain
    /\ tasks[1].wallet = tasks[2].wallet

(***************************************************************************)
(* Claims about the seed module                                            *)
(***************************************************************************)

\* C20 as claimed: for every valid phrase p,
\* entropyToMnemonic(mnemonicToEntropy(p)) is p exactly, and every generated
\* phrase is valid and round-trips.
C20_RoundTripExact ==
    /\ sret.op = "mnemonicToEntropy" /\ ~sret.threw =>
          entropyToMnemonic(sret.entropy) = sret.phrase
    /\ sret.op = "generateMnemonic" =>
          /\ validateMnemonic(sret.result)
          /\ entropyToMnemonic(mnemonicToEntropy(sret.result)) = sret.result

\* C20 amended: for every valid phrase p, entropyToMnemonic(mnemonicToEntropy(p))
\* is p in canonical form (lower case, words separated by single spaces), so it
\* is p exactly when p is canonical; every generated phrase is valid, canonical
\* and round-trips exactly.
C20_RoundTripCanonical ==
    /\ sret.op = "mnemonicToEntropy" =>
          /\ sret.threw <=> ~validateMnemonic(sret.phrase)
          /\ ~sret.threw =>
                /\ entropyToMnemonic(sret.entropy) = Split(sret.phrase)
                /\ sret.phrase = Split(sret.phrase) =>
                      entropyToMnemonic(sret.entropy) = sret.phrase
    /\ sret.op = "generateMnemonic" =>
          /\ validateMnemonic(sret.result)
          /\ Split(sret.result) = sret.result
          /\ entropyToMnemonic(mnemonicToEntropy(sret.result)) = sret.result

\* mnemonicToEntropy has accepted a phrase that is not in canonical form
C20_Witness ==
    /\ sret.op = "mnemonicToEntropy"
    /\ ~sret.threw
    /\ sret.phrase # Split(sret.phrase)

\* C21: validateMnemonic never throws and answers false for a phrase with a
\* word outside the word list or with a bad checksum (two list words that no
\* entropy produces); mnemonicToEntropy throws on such a phrase and returns
\* nothing.
C21_ValidateTotal ==
    LET words == Split(sret.phrase)
        foreign == \E k \in 1..Len(words) : words[k] \notin 0..3
        badChecksum == /\ Len(words) = 2
                       /\ ~foreign
                       /\ \A e \in Entropies : entropyToMnemonic(e) # words
    IN
    /\ sret.op = "validateMnemonic" =>
          /\ ~sret.threw
          /\ sret.valid \in BOOLEAN
          /\ foreign \/ badChecksum => ~sret.valid
    /\ sret.op = "mnemonicToEntropy" /\ (foreign \/ badChecksum) =>
          sret.threw /\ sret.entropy = -1

\* validateMnemonic has answered false for two list words with a bad checksum
C21_Witness ==
    /\ sret.op = "validateMnemonic"
    /\ ~sret.valid
    /\ ~sret.threw
    /\ Len(sret.phrase) = 2
    /\ \A k \in 1..2 : sret.phrase[k] \in 0..3

(***************************************************************************)
(* Claims about the wallet's configuration and tokens                      *)
(***************************************************************************)

\* C22: every adapter a wallet builds for a chain that has an entry in the
\* wallet's rpcUrls uses that URL as its endpoint; for a chain without an
\* entry it uses the chain's default endpoint.
C22_CustomRpcUsed ==
    LET Endpoint(w, chain) ==
            IF chain \in DOMAIN wallets[w].rpcUrls THEN wallets[w].rpcUrls[chain]
            ELSE IF chain = "bitcoin" THEN "https://blockstream.info/api"
            ELSE DEFAULT_RPCS(chain)
    IN
    /\ \A t \in TaskIds :
          tasks[t].adapter # NoAdapter =>
              tasks[t].adapter.rpcUrl = Endpoint(tasks[t].wallet, tasks[t].chain)
    /\ wret.adapter # NoAdapter => wret.adapter.rpcUrl = Endpoint(wret.wallet, wret.chain)

\* C23: a getBalance(chain, token) that returns gives the chain's native
\* balance when the token is omitted, and the balance of the requested token,
\* under that token's symbol, when a token is given.
C23_TokenBalance ==
    wret.op = "getBalance" /\ ~wret.threw =>
        IF wret.token = NoToken
        THEN /\ wret.symbol = NativeSymbol(wret.adapter)
             /\ wret.value \in {"balance", "zero balance"}
        ELSE wret.symbol = wret.token

\* C24: keys are derived lazily.  The cache of a KeyManager gains an entry
\* only in a call that requests that chain's key: a derivePrivateKey(chain),
\* made directly or by a wallet operation or getAddresses, adds at most the
\* entry of its chain, an export at most the listed chains; construction
\* leaves the cache empty.
C24_LazyDerivation ==
    [][\A i \in ManagerIds :
          LET gained == DOMAIN managers'[i].derivedKeys \ DOMAIN managers[i].derivedKeys
          IN
          /\ gained # {} =>
                /\ ret'.mgr = i
                /\ \/ ret'.op = "derive" /\ gained = {ret'.chain}
                   \/ ret'.op = "export" /\ gained \subseteq Chains
          /\ ret'.op = "new" /\ ret'.mgr = i => managers'[i].derivedKeys = <<>>]_vars

\* getBalance on ethereum is under way on a wallet whose cache holds the
\* ethereum key and no other
C24_Witness ==
    \E t \in TaskIds :
        /\ tasks[t].op = "getBalance"
        /\ tasks[t].chain = "ethereum"
        /\ DOMAIN managers[tasks[t].wallet].derivedKeys = {"ethereum"}

\* C25: the derivation path depends only on the chain family.  Whatever the
\* seed, the keys a KeyManager holds for ethereum, polygon, bsc and arbitrum
\* are one key and the bitcoin key is derived along another path; the four EVM
\* addresses getAddresses() returns are the same text.
C25_PathPerFamily ==
    /\ \A i \in ManagerIds :
          LET keys == managers[i].derivedKeys IN
          \A c \in DOMAIN keys \cap EvmChains :
              /\ \A d \in DOMAIN keys \cap EvmChains : keys[c] = keys[d]
              /\ "bitcoin" \in DOMAIN keys =>
                    /\ keys["bitcoin"].path # keys[c].path
                    /\ keys["bitcoin"] # keys[c]
    /\ wret.op = "getAddresses" /\ ~wret.threw =>
          \A c, d \in EvmChains :
              AddressText(wret.addresses[c]) = AddressText(wret.addresses[d])

\* getAddresses() has returned the five addresses of a wallet whose cache
\* holds all five keys
C25_Witness ==
    /\ wret.op = "getAddresses"
    /\ ~wret.threw
    /\ DOMAIN wret.addresses = Chains
    /\ DOMAIN managers[wret.wallet].derivedKeys = Chains

\* C26: an EVM adapter takes the native branch of estimateFee and
\* sendTransaction (fixed 21000 gas, value transfer) only for a request whose
\* token is the native symbol of the adapter's own chain.
C26_NativeOnlyOwnSymbol ==
    /\ wret.op \in {"estimateFee", "sendPayment"}
    /\ wret.adapter.kind = "EthereumChain"
    /\ wret.native
    => wret.token = NativeSymbol(wret.adapter)

(***************************************************************************)
(* Claims about the BalanceManager                                         *)
(***************************************************************************)

\* C27: a getBalance call answers from the cache, without calling the wallet,
\* exactly when useCache is true and the entry of its (chain, token-or-native)
\* key was stored less than cacheTtl ms before; otherwise it calls
\* wallet.getBalance once and stores the result under that key only, and a
\* failed fetch propagates and leaves the cache as it was.
C27_CacheDiscipline ==
    [][LET r == bret'
           key == CacheKey(r.chain, r.token)
           completes == \/ btask.op = "getBalance" /\ btask' = NoBtask
                        \/ btask = NoBtask /\ r.op = "getBalance" /\ r # bret
           stored == r.checked # NoEntry /\ r.checkAt - r.checked.timestamp < r.checkTtl
       IN
       completes =>
           IF r.useCache /\ stored
           THEN /\ r.fetches = 0
                /\ ~r.threw
                /\ r.balance = r.checked.balance
                /\ bm'.cache = bm.cache
           ELSE /\ r.fetches = 1
                /\ IF r.threw
                   THEN bm'.cache = bm.cache
                   ELSE /\ DOMAIN bm'.cache = DOMAIN bm.cache \cup {key}
                        /\ \A other \in DOMAIN bm.cache \ {key} :
                              bm'.cache[other] = bm.cache[other]
                        /\ bm'.cache[key] = [balance |-> r.balance,
                                             timestamp |-> now]]_vars

\* a getBalance with useCache found an expired entry, fetched once and
\* returned, while the cache holds another key's entry too
C27_Witness ==
    /\ bret.op = "getBalance"
    /\ bret.useCache
    /\ bret.checked # NoEntry
    /\ bret.fetches = 1
    /\ ~bret.threw
    /\ Cardinality(DOMAIN bm.cache) >= 2

C29_ConnectedIffConnectReturned ==
    \A name \in ExchangeNames :
        LET key == toLowerCase(name)
            r == IsConnectedResult(name)
        IN
        /\ ~r.threw
        /\ r.value <=> /\ key \in DOMAIN exchanges
                       /\ key \in DOMAIN connectLog
                       /\ connectLog[key] = "returned"

====
